---- MODULE Spec2Model ----
(***************************************************************************)
(* Control plane of the hyac FaaS platform: the task queue and its worker  *)
(* (server/core/task_worker.py), the container orchestrator                *)
(* (server/core/docker_manager.py), the application API                    *)
(* (server/routers/applications.py), boot-time initialisation              *)
(* (server/core/initialization.py, server/main.py) and the status          *)
(* reconciler (server/core/runtime_status_manager.py).                     *)
(*                                                                         *)
(* Atomicity.  The controller is one asyncio event loop: a coroutine runs  *)
(* without interruption between two awaits.  Each action below is one such *)
(* segment: the effect of the awaited operation (a document read or write, *)
(* an engine call run in a thread) followed by the synchronous code up to  *)
(* the next await.  The documents (apps, tasks), the container engine and  *)
(* the blob store are shared and survive the controller process; the       *)
(* coroutines and running_apps live in the process and die with it.        *)
(***************************************************************************)
EXTENDS Integers, Sequences, FiniteSets, TLC

VARIABLES apps, buckets, dbusers, container, running_apps, tasks, procs,
          worker, init, req, sweep, boots, appdata,
          fndb, cache, feed, watcher, calls, metrics, penv, osenv,
          codecache, clock, proxy, blob, handles, functions, creates, savers, logw, sched

\* The controller's state and the documents it owns.
ctlvars == <<apps, buckets, dbusers, container, running_apps, tasks, procs,
             worker, init, req, sweep, boots, appdata>>

\* The functions, the state of the runtime process and the environment
\* variables.
rtvars == <<fndb, cache, feed, watcher, calls, metrics, penv, osenv>>

\* A CodeCache object and the clock its entries expire by.
cachevars == <<codecache, clock>>

\* The reverse_proxy handler in progress.
pxvars == <<proxy>>

\* An object of the application's bucket and the minio_open contexts on it.
blobvars == <<blob, handles>>

\* The Function documents by name and the create_function requests.
fnvars == <<functions, creates>>

\* The coroutines that hold a copy of the Application document to save,
\* the LogWatcherManager with its websockets and watch tasks, and the
\* SchedulerManager with the ScheduledTask collection.
svcvars == <<savers, logw, sched>>

libvars == <<cachevars, pxvars, blobvars, fnvars, svcvars>>

vars == <<ctlvars, rtvars, libvars>>

\* ---------------------------------------------------------------- bounds
\* Task documents ever inserted.
MaxTasks == 2
\* Controller process terminations (kill or shutdown) followed by a boot.
MaxBoots == 1
\* Requests the runtime receives.
MaxCalls == 2
\* Code updates of one function.
MaxCode == 1
\* The time the clock is followed to.
MaxTime == 3
\* ScheduledTask documents inserted.
MaxInserts == 3
\* asyncio tasks LogWatcherManager creates.
MaxWatch == 3
\* Requests to /function/create.
MaxCreates == 3

\* ------------------------------------------------------------- constants
AppIds == {"Ab1"}

\* str.lower() on the application ids of the model.
Lower(a) == CASE a = "Ab1" -> "ab1"

ContainerName(a) == "hyac-app-runtime-" \o Lower(a)

AppBucket(a) == Lower(a)

WebBucket(a) == "web-" \o Lower(a)

ApplicationStatus == {"starting", "running", "stopping", "stopped", "deleting", "error"}

TaskStatus == {"pending", "running", "success", "failed"}

TaskAction == {"start_app", "stop_app", "restart_app", "delete_app"}

\* ------------------------------------------------------ container engine
NoContainer == [state |-> "absent", health |-> "none", id |-> 0]

\* DockerManager.stop_container: NotFound and an exited container count as
\* stopped; a created (never started) container has nothing to stop.
EngineStop(c, n) ==
    IF c[n].state \in {"running"}
    THEN [c EXCEPT ![n] = [state |-> "exited", health |-> "none", id |-> c[n].id]]
    ELSE c

\* DockerManager.remove_container (force=False): the engine refuses to remove
\* a running container (APIError, logged); NotFound counts as removed.
EngineRemove(c, n) ==
    IF c[n].state \in {"created", "exited"}
    THEN [c EXCEPT ![n] = NoContainer]
    ELSE c

\* DockerManager.create_container: a name already in use is an APIError
\* (None is returned).
EngineCanCreate(c, n) == c[n].state = "absent"

EngineCreate(c, n, i) == [c EXCEPT ![n] = [state |-> "created", health |-> "none", id |-> i]]

\* DockerManager.start_container: the health check starts in "starting".
EngineStart(c, n) == [c EXCEPT ![n] = [state |-> "running", health |-> "starting", id |-> c[n].id]]

\* DockerManager.list_containers(all=False): the names of the containers
\* that are running.
LiveNames(c) == {n \in DOMAIN c : c[n].state = "running"}

\* ------------------------------------------------------------- documents
\* Task(action = ..., payload = {"app_id": a}): status defaults to PENDING.
\* No caller passes a task_id; the model takes it as generated on
\* construction (initialization.py: "task_id is now auto-generated") and
\* identifies a task by its position in the collection.  del: the document
\* has been deleted.
Task(action, a) == [action |-> action, app |-> a, status |-> "pending", del |-> FALSE]

IdleProc == [pc |-> "idle", app |-> "unread", set |-> "none", cid |-> 0]

\* wrote and ins record what the handler has written so far: the status saved
\* to the Application and the tasks inserted, as inserted.
IdleReq == [pc |-> "idle", op |-> "none", app |-> "none", set |-> "none", code |-> 0,
            wrote |-> "none", ins |-> <<>>]

IdleSweep == [pc |-> "idle", todo |-> {}]

DownWorker == [pc |-> "down", snap |-> {}, live |-> {}, todo |-> {}, next |-> 0, recIns |-> {}]

IdleInit == [pc |-> "idle", todo |-> {}]

\* Task.insert(): the task is appended with no coroutine attached to it.
InsertTask(action, a) ==
    /\ tasks' = Append(tasks, Task(action, a))
    /\ procs' = Append(procs, IdleProc)

\* What the next boot can insert for application a (reconcile_running_apps
\* and initialize_existing_apps), used to keep every boot within the task bound.
BootNeed(a, c) ==
    CASE apps[a] = "running" -> IF ContainerName(a) \in LiveNames(c) THEN 1 ELSE 2
      [] apps[a] = "starting" -> 1
      [] OTHER -> 0

RECURSIVE SumOver(_, _)
SumOver(S, f) == IF S = {} THEN 0 ELSE LET x == CHOOSE y \in S : TRUE IN f[x] + SumOver(S \ {x}, f)

BootNeedAll(c) == SumOver(AppIds, [a \in AppIds |-> BootNeed(a, c)])

\* Inserts the coroutines in flight may still make.
Reserved ==
      (IF req.pc \in {"save", "insert"} THEN 1 ELSE 0)
    + (IF worker.pc \in {"rec_find", "rec_insert"} THEN Cardinality(AppIds) ELSE 0)
    + (IF init.pc \in {"find", "save", "insert"} THEN Cardinality(AppIds) ELSE 0)

\* ================================================================ runtime
\* The runtime process of one application (src/app): the code cache, the
\* code loader, the dispatch of requests and the function-change watcher.
\* Strings that the code concatenates and compares by prefix are sequences
\* of characters.  A query's result is the document as the database served
\* it; where the code stores something derived from that document after the
\* await returns (compile and cache.set), the model keeps the moment the
\* query is served and the moment the coroutine goes on apart.
\*
\* app/main.py starts the watcher with create_task(watch_function_changes())
\* (no app argument, line 82) and leaves the environment watcher commented
\* out (line 83): the watcher below is the one watch_function_changes(app)
\* runs when it is started with its argument, as its own restart does
\* (cache_watcher.py:100); no environment watcher runs.

\* settings.APP_ID of the runtime.
APP_ID == <<"A", "b", "1">>

\* function_id of the endpoint function and of the common function.
EndpointId == <<"f", "1">>

CommonId == <<"c", "1">>

FunctionIds == {EndpointId, CommonId}

FunctionType == [f \in FunctionIds |-> IF f = CommonId THEN "common" ELSE "endpoint"]

FunctionName == [f \in FunctionIds |-> IF f = CommonId THEN <<"m", "u">> ELSE <<"h", "i">>]

\* What a function's source defines: a handler, nothing, or it does not
\* execute.
CodeKinds == {"handler", "empty", "broken"}

NoCode == [ver |-> -1, kind |-> "none"]

NoDoc == [present |-> FALSE, code |-> NoCode]

NoDocs == [f \in {} |-> NoDoc]

\* CodeCache._make_key.
MakeKey(app, function_id, suffix) ==
    IF suffix = <<>>
    THEN app \o <<":", ":">> \o function_id
    ELSE app \o <<":", ":">> \o function_id \o <<":", ":">> \o suffix

CommonSuffix == <<"c", "o", "m", "m", "o", "n">>

\* str.startswith.
StartsWith(s, prefix) == Len(prefix) <= Len(s) /\ SubSeq(s, 1, Len(prefix)) = prefix

\* code_cache = CodeCache(max_size=1024, ttl=7200).
CacheMaxSize == 1024

NoArtifact == [ver |-> -1, names |-> {}]

\* CodeCache.get: the entry's data when it is there and has not expired.
CacheGet(c, key) ==
    IF \E i \in DOMAIN c : c[i].key = key /\ c[i].fresh
    THEN c[CHOOSE i \in DOMAIN c : c[i].key = key].data
    ELSE NoArtifact

\* CodeCache.set: the oldest entry is evicted from a full cache, then the
\* entry is stored (a dict keeps the position of a key it has).
CacheSet(c, key, data) ==
    LET c1 == IF Len(c) >= CacheMaxSize THEN Tail(c) ELSE c
        e == [key |-> key, data |-> data, fresh |-> TRUE]
    IN IF \E i \in DOMAIN c1 : c1[i].key = key
       THEN [i \in DOMAIN c1 |-> IF c1[i].key = key THEN e ELSE c1[i]]
       ELSE Append(c1, e)

\* CodeCache.invalidate: every key that starts with the key of
\* (app_name, identifier) is removed.
Invalidate(c, app_name, identifier) ==
    LET prefix == MakeKey(app_name, identifier, <<>>)
        keep(e) == ~StartsWith(e.key, prefix)
    IN SelectSeq(c, keep)

\* CodeLoader._compile_code: exec(code, {"minio_open": minio_open}) returns
\* the namespace, to which exec adds __builtins__ and the names the source
\* defines.
Defines(kind) == IF kind = "handler" THEN {"handler"} ELSE {}

CompileCode(code) == [ver |-> code.ver, names |-> {"minio_open", "__builtins__"} \cup Defines(code.kind)]

\* Function.find(_one) with status == PUBLISHED and the given function_type.
FindPublished(db, f, type) == IF db[f].present /\ FunctionType[f] = type THEN db[f] ELSE NoDoc

\* load_all_common_functions, the loop over the documents found: a cached
\* module is taken as it is, a missing one is compiled and cached, a
\* compilation that fails is logged and the function left out.
RECURSIVE BuildCommon(_, _, _, _)
BuildCommon(ids, docs, c, ns) ==
    IF ids = {} THEN [cache |-> c, ns |-> ns]
    ELSE LET f == CHOOSE x \in ids : TRUE
             key == MakeKey(APP_ID, f, CommonSuffix)
             hit == CacheGet(c, key)
         IN IF hit # NoArtifact
            THEN BuildCommon(ids \ {f}, docs, c, ns \cup {[id |-> f, ver |-> hit.ver]})
            ELSE IF docs[f].code.kind = "broken"
            THEN BuildCommon(ids \ {f}, docs, c, ns)
            ELSE BuildCommon(ids \ {f}, docs, CacheSet(c, key, CompileCode(docs[f].code)),
                             ns \cup {[id |-> f, ver |-> docs[f].code.ver]})

\* The common documents a Function.find serves.
CommonDocs(db) == [f \in {x \in FunctionIds : FindPublished(db, x, "common").present} |-> db[f]]

\* dynamic_handler after the load: "func, func_doc = loaded_data" unpacks the
\* namespace dict, i.e. iterates its keys: ValueError unless it has exactly
\* two, and then func_doc is a key (a str) and func_doc.function_name is an
\* AttributeError.  Both are caught by "except Exception": status ERROR and
\* the body {"code": 1, ...} is returned (HTTP 200).  The lines that get and
\* call the handler (141-201) are never reached.
AfterLoad(names) ==
    [status |-> "error", http |-> 200, ran |-> FALSE,
     raised |-> IF Cardinality(names) = 2 THEN "AttributeError" ELSE "ValueError"]

\* Keys of Application.environment_variables, their values, and the mark of
\* a key that is not set.
EnvKeys == {"K"}

EnvValues == {"v1", "v2"}

NoValue == ""

IdleCall ==
    [pc |-> "idle", func_id |-> <<>>, docs |-> NoDocs, common |-> {}, doc |-> NoDoc,
     status |-> "success", http |-> 0, ran |-> FALSE, raised |-> "none", inserts |-> 0,
     hit |-> FALSE, art |-> -1]

IdleWatcher == [pc |-> "watch", docs |-> NoDocs, common_modules |-> {}]

\* The runtime is serving with both functions published and nothing cached;
\* lifespan has loaded the persisted environment variables into the process
\* environment (os.environ.update(initial_envs)).
RuntimeInit ==
    /\ fndb = [f \in FunctionIds |-> [present |-> TRUE, code |-> [ver |-> 0, kind |-> "handler"]]]
    /\ cache = <<>>
    /\ feed = <<>>
    /\ watcher = IdleWatcher
    /\ calls = [r \in 1..MaxCalls |-> IdleCall]
    /\ metrics = {}
    /\ penv = [k \in EnvKeys |-> "v1"]
    /\ osenv = [k \in EnvKeys |-> "v1"]

\* ------------------------------------------------- core/cache.CodeCache
\* A CodeCache object of app/core/cache.py ("app") or of
\* server/core/cache.py ("server"), which differ in invalidate: _cache is
\* the dict as the sequence of its items in insertion order, each with its
\* key, its data and its expire_at.
CodeCache(module, max_size, ttl) ==
    [module |-> module, _cache |-> <<>>, max_size |-> max_size, ttl |-> ttl]

\* ttl of the global instance code_cache.
CacheTtl == 7200

\* code_cache = CodeCache(max_size=1024, ttl=7200).
code_cache == CodeCache("app", CacheMaxSize, CacheTtl)

\* Python's None, returned by get.
None == "None"

\* A get that returns the data of an entry whatever its expire_at.
CodeCache_getUntimed(self, key, now) ==
    LET hits == {i \in DOMAIN self._cache : self._cache[i].key = key}
    IN IF hits # {}
       THEN self._cache[CHOOSE i \in hits : TRUE].data
       ELSE None

\* CodeCache.get: entry = self._cache.get(key); the data when there is an
\* entry and entry["expire_at"] > time.time(), None otherwise.
CodeCache_get(self, key, now) ==
    LET hits == {i \in DOMAIN self._cache : self._cache[i].key = key}
    IN IF hits # {} /\ self._cache[CHOOSE i \in hits : TRUE].expire_at > now
       THEN self._cache[CHOOSE i \in hits : TRUE].data
       ELSE None

\* CodeCache._evict: del self._cache[next(iter(self._cache))].
CodeCache_evict(self) == [self EXCEPT !._cache = Tail(self._cache)]

\* CodeCache.set: _evict() when len(self._cache) >= self.max_size, then
\* self._cache[key] = {"data": data, "expire_at": time.time() + self.ttl}
\* (a key the dict has keeps its position).
CodeCache_set(self, key, data, now) ==
    LET s1 == IF Len(self._cache) >= self.max_size THEN CodeCache_evict(self) ELSE self
        e == [key |-> key, data |-> data, expire_at |-> now + self.ttl]
        c1 == s1._cache
    IN [s1 EXCEPT !._cache =
           IF \E i \in DOMAIN c1 : c1[i].key = key
           THEN [i \in DOMAIN c1 |-> IF c1[i].key = key THEN e ELSE c1[i]]
           ELSE Append(c1, e)]

\* app/core/cache.CodeCache.invalidate: every key that starts with
\* _make_key(app_name, function_id) is popped.
CodeCache_invalidate(self, app_name, function_id) ==
    LET prefix == MakeKey(app_name, function_id, <<>>)
        keep(e) == ~StartsWith(e.key, prefix)
    IN [self EXCEPT !._cache = SelectSeq(self._cache, keep)]

\* server/core/cache.CodeCache.invalidate: the base key is popped, and the
\* key of each suffix in suffixes (None is the empty list here).
CodeCache_invalidate_server(self, app_name, function_id, suffixes) ==
    LET gone == {MakeKey(app_name, function_id, <<>>)}
                  \cup {MakeKey(app_name, function_id, x) : x \in suffixes}
        keep(e) == e.key \notin gone
    IN [self EXCEPT !._cache = SelectSeq(self._cache, keep)]

\* Keys the cache is used with: (app_name, function_id, suffix) of a
\* function, of its suffix variant, of a function whose id starts with the
\* first one's, and of a function of another application.
CacheKeys ==
    {<<<<"A">>, <<"f">>, <<>>>>, <<<<"A">>, <<"f">>, <<"c">>>>,
     <<<<"A">>, <<"f", "g">>, <<>>>>, <<<<"B">>, <<"f">>, <<>>>>}

KeyOf(k) == MakeKey(k[1], k[2], k[3])

\* The data stored.
CacheData == {"v1", "v2"}

\* max_size and ttl of the objects constructed.
MaxSizes == {1, 2}

Ttls == {1, 2}

\* The process has its global code_cache, empty; time.time() is counted
\* from this moment.
CacheInit ==
    /\ codecache = code_cache
    /\ clock = 0

\* No request is with reverse_proxy.  info: the container_info
\* start_app_container returned (the container id; 0 for None); cid: the
\* container this invocation created; sent: the request went upstream.
IdleProxy == [pc |-> "idle", app |-> "none", cid |-> 0, info |-> 0, http |-> 0, sent |-> FALSE]

ProxyInit == proxy = IdleProxy

\* ---------------------------------------------- app/core/faas_minio.py
\* The callers of minio_open on one object name.
Writers == {1, 2}

\* What a writer leaves in the buffer (the empty string when it writes
\* nothing).
BlobData == {"", "d1", "d2"}

\* The object does not exist (stat_object and get_object give NoSuchKey).
NoObject == "NoSuchKey"

\* Modes the object is opened in.
OpenModes == {"x", "w"}

\* A minio_open context that is not entered (or has been left).
ClosedHandle == [pc |-> "closed", mode |-> "none", buffer |-> "", raised |-> "none"]

\* _buffered_read_write, preparation in mode "x": stat_object; NoSuchKey is
\* swallowed; for an object that exists FileExistsError is raised inside
\* the outer try, whose "except Exception" raises IOError from it.
ExclusiveRaises(stat) == IF stat = NoObject THEN "none" ELSE "IOError"

BlobInit ==
    /\ blob = NoObject
    /\ handles = [w \in Writers |-> ClosedHandle]

\* ------------------------------------- routers/functions.create_function
\* function_name values asked for.
FunctionNames == {"n1", "n2"}

IdleCreate == [pc |-> "idle", name |-> "none", code |-> -1]

\* The application has no Function yet; functions is the collection as the
\* sequence of the function_name of its documents of this application.
CreateInit ==
    /\ functions = <<>>
    /\ creates = [r \in 1..MaxCreates |-> IdleCreate]

\* The writers of the whole Application document besides env_add and
\* env_remove: process_task, initialize_existing_apps (controller) and
\* set_dynamic_env (runtime).
Savers == {"process_task", "initialize_existing_apps", "set_dynamic_env"}

\* A writer that holds no copy of the document.
IdleSaver == [pc |-> "idle", env |-> [k \in EnvKeys |-> NoValue]]

SaverInit == savers = [w \in Savers |-> IdleSaver]

\* The websockets of /logs/ws and the functions they subscribe to.
Sockets == {1, 2}

LogFunctions == {"f", "g"}

\* log_watcher = LogWatcherManager(): _subscribers (the (websocket,
\* func_id) pairs of the application) and _watch_tasks (rec: the task
\* recorded for the application, 0 for none) are empty; cur is each
\* websocket_logs handler's current_function_id ("closed" once the handler
\* is over) and task the state of each asyncio task created.
LogWatcherManager ==
    [_subscribers |-> {}, rec |-> 0,
     cur |-> [ws \in Sockets |-> "none"],
     task |-> [i \in 1..MaxWatch |-> "none"]]

LogInit == logw = LogWatcherManager

\* The functions /scheduler requests name: two endpoint functions, a common
\* function and a function_id no Function document has.
SchedFunctions == {"fe1", "fe2", "fc", "fx"}

\* Function.function_type of the Function document found, "none" without one.
FunctionTypeOf(f) ==
    CASE f \in {"fe1", "fe2"} -> "endpoint"
      [] f = "fc" -> "common"
      [] OTHER -> "none"

\* trigger_config of a request: two configurations the trigger class
\* accepts and one it raises on.
TriggerConfigs == {"cfg1", "cfg2", "bad"}

\* params and body of a request.
TaskArgs == {"a1", "a2"}

NoTask == [exists |-> FALSE]

NoJob == [exists |-> FALSE]

\* scheduler_manager = SchedulerManager(): the scheduler has no job, by job
\* id; no ScheduledTask is persisted, by function; ids counts the task_id
\* values drawn so far.
SchedInit ==
    sched = [docs |-> [f \in SchedFunctions |-> NoTask],
             jobs |-> [i \in 1..MaxInserts |-> NoJob],
             ids |-> 0]

LibraryInit == CacheInit /\ ProxyInit /\ BlobInit /\ CreateInit /\ SaverInit /\ LogInit /\ SchedInit

\* What is stored under an application's app_id besides the Application
\* document and the buckets: Function, FunctionTemplate, FunctionMetric and
\* FunctionsHistory documents of the main database, and the application's
\* own database.
DataKinds == {"function", "template", "metric", "history", "database"}

\* ------------------------------------------------------------------ Init
\* The controller process is not running yet.  The application is either
\* not created, or was stopped, or was running under an earlier controller
\* process.
InitialApp == {"none", "stopped", "running"}

\* The earlier process either was killed, leaving the container live and
\* healthy, or shut down through lifespan, which stops and removes the
\* container of every running application and leaves its status alone.
\* An application that exists has functions, served requests and has its
\* database.
Init ==
    /\ apps \in [AppIds -> InitialApp]
    /\ buckets = UNION {{AppBucket(a), WebBucket(a)} : a \in {x \in AppIds : apps[x] # "none"}}
    /\ dbusers = {a \in AppIds : apps[a] # "none"}
    /\ \E left \in SUBSET {a \in AppIds : apps[a] = "running"} :
          container = [n \in {ContainerName(a) : a \in AppIds} |->
                         IF \E a \in left : ContainerName(a) = n
                         THEN [state |-> "running", health |-> "healthy", id |-> -1]
                         ELSE NoContainer]
    /\ running_apps = [a \in AppIds |-> 0]
    /\ tasks = <<>>
    /\ procs = <<>>
    /\ worker = DownWorker
    /\ init = IdleInit
    /\ req = IdleReq
    /\ sweep = IdleSweep
    /\ boots = 0
    /\ appdata = [a \in AppIds |-> IF apps[a] = "none" THEN {} ELSE DataKinds]
    /\ RuntimeInit
    /\ LibraryInit

\* --------------------------------------------------- process life cycle
\* main.lifespan: create_task(watch_for_tasks()) and
\* initialize_existing_apps() start together; running_apps is empty.
Boot ==
    /\ worker.pc = "down"
    /\ worker' = [DownWorker EXCEPT !.pc = "rec_find"]
    /\ init' = [IdleInit EXCEPT !.pc = "find"]
    /\ UNCHANGED <<apps, buckets, dbusers, container, running_apps, tasks, procs, req, sweep, boots, appdata, rtvars, libvars>>

\* The API, the proxy and the scheduler run once the lifespan start-up is over.
Serving == worker.pc # "down" /\ init.pc = "done"

\* The process can end when the boot that follows fits in the task bound
\* (c: the containers it will find).
CanTerminate(cap, nb, c) ==
    /\ worker.pc # "down"
    /\ boots < nb
    /\ Len(tasks) + BootNeedAll(c) <= cap

ProcessGone ==
    /\ worker' = DownWorker
    /\ init' = IdleInit
    /\ req' = IdleReq
    /\ sweep' = IdleSweep
    /\ procs' = [t \in DOMAIN procs |-> IdleProc]
    /\ running_apps' = [a \in AppIds |-> 0]
    /\ boots' = boots + 1

\* The containers a kill can leave behind: start_app_container's
\* replacement (stop_container, remove_container, create_container,
\* start_container) is several engine calls, and a kill that falls between
\* them leaves the stale container removed and no new one created.
CrashOutcomes ==
    {container} \cup
    {EngineRemove(EngineStop(container, ContainerName(tasks[t].app)), ContainerName(tasks[t].app)) :
        t \in {x \in DOMAIN tasks : procs[x].pc = "sac_replace"}}

\* The controller process is killed: every coroutine and running_apps are
\* lost, documents and containers stay as they are.
Kill(cap, nb) ==
    /\ \E c2 \in CrashOutcomes : CanTerminate(cap, nb, c2) /\ container' = c2
    /\ ProcessGone
    /\ UNCHANGED <<apps, buckets, dbusers, tasks, appdata, rtvars, libvars>>

\* lifespan shutdown: stop_app_container for every key of running_apps
\* (stop, remove, drop the record), then the process exits.
Shutdown(cap, nb) ==
    /\ Serving
    /\ LET c2 == [n \in DOMAIN container |->
                   IF \E a \in AppIds : running_apps[a] # 0 /\ ContainerName(a) = n
                   THEN EngineRemove(EngineStop(container, n), n)[n]
                   ELSE container[n]]
       IN CanTerminate(cap, nb, c2) /\ container' = c2
    /\ ProcessGone
    /\ UNCHANGED <<apps, buckets, dbusers, tasks, appdata, rtvars, libvars>>

\* The engine's health check of a started container resolves (healthy, or
\* unhealthy when the runtime does not come up).
EngineHealth(flt) ==
    /\ \E n \in DOMAIN container :
          /\ container[n].state = "running"
          /\ container[n].health = "starting"
          /\ container' = [container EXCEPT ![n].health = IF flt THEN "unhealthy" ELSE "healthy"]
    /\ UNCHANGED <<apps, buckets, dbusers, running_apps, tasks, procs, worker, init, req, sweep, boots, appdata, rtvars, libvars>>

\* Container.status as the engine lists it, and State.Health.Status
\* ("none": the attribute is missing, health_status is None).
EngineStatuses == {"created", "running", "paused", "restarting", "removing", "exited", "dead"}

HealthStatuses == {"none", "starting", "healthy", "unhealthy"}

\* An existing container changes state at the engine (its process exits or
\* dies, the unless-stopped restart policy restarts it, an operator pauses
\* or unpauses it, its health check resolves).
EngineReports(n, st, h) ==
    /\ container[n].state # "absent"
    /\ container[n].state # st
    /\ container' = [container EXCEPT ![n] = [state |-> st, health |-> h, id |-> container[n].id]]
    /\ UNCHANGED <<apps, buckets, dbusers, running_apps, tasks, procs, worker, init, req, sweep, boots, appdata, rtvars, libvars>>

\* ----------------------------------------------------------- task worker
\* reconcile_running_apps: Application.find(status == RUNNING), then
\* list_containers() and the first Task.insert() is issued.
\* A reconciliation that does not look at the live list.
ReconcileMissingAll(snap, live) == snap

ReconcileMissing(snap, live) == {a \in snap : ContainerName(a) \notin live}

W_RecFind ==
    /\ worker.pc = "rec_find"
    /\ LET snap == {a \in AppIds : apps[a] = "running"}
           live == IF snap = {} THEN {} ELSE LiveNames(container)
           missing == ReconcileMissing(snap, live)
       IN worker' = [worker EXCEPT !.snap = snap, !.live = live, !.todo = missing,
                                   !.pc = IF missing = {} THEN "drain" ELSE "rec_insert"]
    /\ UNCHANGED <<apps, buckets, dbusers, container, running_apps, tasks, procs, init, req, sweep, boots, appdata, rtvars, libvars>>

\* reconcile_running_apps: one Task(START_APP, PENDING).insert() per missing app.
W_RecInsert ==
    /\ worker.pc = "rec_insert"
    /\ LET a == CHOOSE x \in worker.todo : TRUE
           rest == worker.todo \ {a}
       IN /\ InsertTask("start_app", a)
          /\ worker' = [worker EXCEPT !.todo = rest,
                                      !.recIns = @ \cup {Len(tasks) + 1},
                                      !.pc = IF rest = {} THEN "drain" ELSE "rec_insert"]
    /\ UNCHANGED <<apps, buckets, dbusers, container, running_apps, init, req, sweep, boots, appdata, rtvars, libvars>>

\* process_pending_tasks: the tasks the boot-time query returns.
Drained(t) ==
    /\ ~tasks[t].del
    /\ \/ tasks[t].status = "pending"
       \/ tasks[t].status = "failed" /\ tasks[t].action = "start_app"

\* process_pending_tasks: Task.find(...) and create_task(process_task(task))
\* for every task found; watch_for_tasks then opens the change stream.
W_Drain ==
    /\ worker.pc = "drain"
    /\ procs' = [t \in DOMAIN procs |->
                   IF Drained(t) THEN [IdleProc EXCEPT !.pc = "mark_running"] ELSE procs[t]]
    /\ worker' = [worker EXCEPT !.pc = "open", !.snap = {}, !.live = {}, !.recIns = {}]
    /\ UNCHANGED <<apps, buckets, dbusers, container, running_apps, tasks, init, req, sweep, boots, appdata, rtvars, libvars>>

\* watch_for_tasks: collection.watch(pipeline) is opened; the stream carries
\* the inserts that happen from now on.
W_Open ==
    /\ worker.pc = "open"
    /\ worker' = [worker EXCEPT !.pc = "watching", !.next = Len(tasks) + 1]
    /\ UNCHANGED <<apps, buckets, dbusers, container, running_apps, tasks, procs, init, req, sweep, boots, appdata, rtvars, libvars>>

\* watch_for_tasks: the next insert event (fullDocument.status == PENDING)
\* is read and create_task(process_task(task)) is called.
W_Deliver ==
    /\ worker.pc = "watching"
    /\ worker.next <= Len(tasks)
    /\ procs' = [procs EXCEPT ![worker.next] = [IdleProc EXCEPT !.pc = "mark_running"]]
    /\ worker' = [worker EXCEPT !.next = @ + 1]
    /\ UNCHANGED <<apps, buckets, dbusers, container, running_apps, tasks, init, req, sweep, boots, appdata, rtvars, libvars>>

\* watch_for_tasks: the change stream raises; "except Exception" logs the
\* error and the coroutine returns (no sleep, no new collection.watch).
W_StreamFails ==
    /\ worker.pc = "watching"
    /\ worker' = [worker EXCEPT !.pc = "returned"]
    /\ UNCHANGED <<apps, buckets, dbusers, container, running_apps, tasks, procs, init, req, sweep, boots, appdata, rtvars, libvars>>

\* ------------------------------------------ initialize_existing_apps
\* Application.find(status in [RUNNING, STARTING]).
I_Find ==
    /\ init.pc = "find"
    /\ LET todo == {a \in AppIds : apps[a] \in {"running", "starting"}}
       IN init' = [pc |-> IF todo = {} THEN "done" ELSE "save", todo |-> todo]
    /\ UNCHANGED <<apps, buckets, dbusers, container, running_apps, tasks, procs, worker, req, sweep, boots, appdata, rtvars, libvars>>

\* app.status = STARTING; app.save()  (save() writes the document back,
\* inserting it when it is gone).
I_Save ==
    /\ init.pc = "save"
    /\ LET a == CHOOSE x \in init.todo : TRUE
       IN apps' = [apps EXCEPT ![a] = "starting"]
    /\ init' = [init EXCEPT !.pc = "insert"]
    /\ UNCHANGED <<buckets, dbusers, container, running_apps, tasks, procs, worker, req, sweep, boots, appdata, rtvars, libvars>>

\* Task(START_APP).insert(); the lifespan start-up ends after the last app.
I_Insert ==
    /\ init.pc = "insert"
    /\ LET a == CHOOSE x \in init.todo : TRUE
           rest == init.todo \ {a}
       IN /\ InsertTask("start_app", a)
          /\ init' = [pc |-> IF rest = {} THEN "done" ELSE "save", todo |-> rest]
    /\ UNCHANGED <<apps, buckets, dbusers, container, running_apps, worker, req, sweep, boots, appdata, rtvars, libvars>>

\* ----------------------------------------------------------- process_task
ProcVarsOnly == <<apps, buckets, dbusers, container, running_apps, tasks, worker, init, req, sweep, boots, appdata, rtvars, libvars>>

Goto(t, pc) == procs' = [procs EXCEPT ![t].pc = pc]

\* The coroutine of task t ends (return, or an exception nobody catches).
End(t) == procs' = [procs EXCEPT ![t] = IdleProc]

\* task.update({"$set": {status: s}}); the document of a deleted task is not
\* there to be updated and the update raises.
SetTaskStatus(t, s) == tasks' = [tasks EXCEPT ![t].status = s]

\* A process_task that goes on without persisting RUNNING.
P_MarkRunningSkipped(t) ==
    /\ procs[t].pc = "mark_running"
    /\ IF tasks[t].del THEN End(t) ELSE Goto(t, "find_app")
    /\ UNCHANGED <<apps, buckets, dbusers, container, running_apps, tasks, worker, init, req, sweep, boots, appdata, rtvars, libvars>>

\* process_task: task.update(status = RUNNING), before the try block.
P_MarkRunning(t) ==
    /\ procs[t].pc = "mark_running"
    /\ IF tasks[t].del
       THEN End(t) /\ UNCHANGED tasks
       ELSE SetTaskStatus(t, "running") /\ Goto(t, "find_app")
    /\ UNCHANGED <<apps, buckets, dbusers, container, running_apps, worker, init, req, sweep, boots, appdata, rtvars, libvars>>

\* stop_app_container, synchronous head: nothing is done for an app that has
\* no running_apps record.
StopHead(a, withRecord, without) == IF running_apps[a] # 0 THEN withRecord ELSE without

\* DockerManager.restart_container: containers.get(name) raises NotFound for a
\* missing container; container.restart() leaves it running with its health
\* check started again.
EngineRestart(c, n) == [c EXCEPT ![n] = [state |-> "running", health |-> "starting", id |-> c[n].id]]

\* A start_app_container that never finds the application's record.
AlreadyRunningNever(a) == FALSE

\* start_app_container, head: "if app.app_id in running_apps" returns the
\* record kept there and does nothing else.
AlreadyRunning(a) == running_apps[a] # 0

\* A process_task that raises for a missing application whatever the action.
MissingAppRaises(act) == "mark_failed"

\* process_task with no Application document: "if not app and task.action
\* != DELETE_APP" raises; the DELETE_APP branch logs a warning and falls
\* through to the success update.
MissingApp(act) == IF act = "delete_app" THEN "mark_success" ELSE "mark_failed"

\* process_task: app = Application.find_one(app_id) and the dispatch on
\* task.action.  START_APP: the database user and the two buckets are made
\* if missing, then start_app_container's head returns the running_apps
\* record of an app that has one.  STOP_APP: stop_app_container's head.
\* RESTART_APP: restart_container, synchronous.
P_FindApp(t) ==
    /\ procs[t].pc = "find_app"
    /\ LET a == tasks[t].app
           n == ContainerName(a)
           st == apps[a]
           act == tasks[t].action
       IN CASE st = "none" /\ act # "delete_app" ->
                 /\ procs' = [procs EXCEPT ![t].pc = MissingApp(act), ![t].app = "none"]
                 /\ UNCHANGED <<container, dbusers, buckets>>
            [] st = "none" /\ act = "delete_app" ->
                 /\ procs' = [procs EXCEPT ![t].pc = MissingApp(act), ![t].app = "none"]
                 /\ UNCHANGED <<container, dbusers, buckets>>
            [] st # "none" /\ act = "start_app" ->
                 /\ dbusers' = dbusers \cup {a}
                 /\ buckets' = buckets \cup {AppBucket(a), WebBucket(a)}
                 /\ procs' = [procs EXCEPT ![t].app = st,
                                ![t].pc = IF AlreadyRunning(a) THEN "save_app" ELSE "sac_replace",
                                ![t].set = IF AlreadyRunning(a) THEN "running" ELSE "none"]
                 /\ UNCHANGED container
            [] st # "none" /\ act = "stop_app" ->
                 /\ procs' = [procs EXCEPT ![t].app = st,
                                ![t].pc = StopHead(a, "stop_container", "save_app"),
                                ![t].set = StopHead(a, "none", "stopped")]
                 /\ UNCHANGED <<container, dbusers, buckets>>
            [] st # "none" /\ act = "restart_app" ->
                 IF container[n].state = "absent"
                 THEN /\ procs' = [procs EXCEPT ![t].pc = "mark_failed", ![t].app = st]
                      /\ UNCHANGED <<container, dbusers, buckets>>
                 ELSE /\ container' = EngineRestart(container, n)
                      /\ procs' = [procs EXCEPT ![t].pc = "save_app", ![t].app = st, ![t].set = "running"]
                      /\ UNCHANGED <<dbusers, buckets>>
            [] st # "none" /\ act = "delete_app" ->
                 /\ procs' = [procs EXCEPT ![t].pc = "del_tasks", ![t].app = st]
                 /\ UNCHANGED <<container, dbusers, buckets>>
    /\ UNCHANGED <<apps, running_apps, tasks, worker, init, req, sweep, boots, appdata, rtvars, libvars>>

\* start_app_container: stop_container and remove_container on the stale
\* container, then create_container, start_container and the first health
\* poll (the health check of a container just started is "starting").
\* flt: the engine fails to start the container (None is returned, the
\* created container stays).
P_SacReplace(t, flt) ==
    /\ procs[t].pc = "sac_replace"
    /\ LET n == ContainerName(tasks[t].app)
           c1 == EngineRemove(EngineStop(container, n), n)
       IN IF ~EngineCanCreate(c1, n)
          THEN container' = c1 /\ Goto(t, "mark_failed")
          ELSE IF flt
          THEN container' = EngineCreate(c1, n, t) /\ Goto(t, "mark_failed")
          ELSE /\ container' = EngineStart(EngineCreate(c1, n, t), n)
               /\ procs' = [procs EXCEPT ![t].pc = "sac_health", ![t].cid = t]
    /\ UNCHANGED <<apps, buckets, dbusers, running_apps, tasks, worker, init, req, sweep, boots, appdata, rtvars, libvars>>

\* A start_app_container whose health loop takes any status of its
\* container for healthy.
P_SacHealthAny(t, flt) ==
    /\ procs[t].pc = "sac_health"
    /\ LET c == container[ContainerName(tasks[t].app)]
       IN CASE c.state = "absent" \/ c.id # procs[t].cid -> ~flt /\ Goto(t, "mark_failed")
            [] OTHER -> ~flt /\ Goto(t, "sac_dns")
    /\ UNCHANGED ProcVarsOnly

\* start_app_container: a round of the health loop that decides.
\* container.reload() raises NotFound when this invocation's container is
\* gone (None is returned, no clean-up).  Rounds that see "starting" change
\* nothing but the loop counter and are not steps of the model; the loop
\* runs out (30 rounds) when the container cannot become healthy, or when the
\* engine is slow (flt).
P_SacHealth(t, flt) ==
    /\ procs[t].pc = "sac_health"
    /\ LET c == container[ContainerName(tasks[t].app)]
       IN CASE c.state = "absent" \/ c.id # procs[t].cid -> ~flt /\ Goto(t, "mark_failed")
            [] OTHER ->
                 CASE c.health = "healthy" -> ~flt /\ Goto(t, "sac_dns")
                   [] c.health = "unhealthy" -> ~flt /\ Goto(t, "sac_cleanup")
                   [] OTHER -> (flt \/ c.state # "running") /\ Goto(t, "sac_cleanup")
    /\ UNCHANGED ProcVarsOnly

\* start_app_container: socket.gethostbyname(container_name) resolves when a
\* container of that name is running on the network (after 15 failures the
\* invocation gives up; flt: the name of a running container does not
\* resolve in time).  Then create_function_templates_for_app, the web config,
\* running_apps[app_id] = {name, id of this invocation's container}, and
\* back in process_task app.status = RUNNING.
P_SacDns(t, flt) ==
    /\ procs[t].pc = "sac_dns"
    /\ LET a == tasks[t].app
       IN IF container[ContainerName(a)].state = "running" /\ ~flt
          THEN /\ running_apps' = [running_apps EXCEPT ![a] = procs[t].cid]
               /\ appdata' = [appdata EXCEPT ![a] = @ \cup {"template"}]
               /\ procs' = [procs EXCEPT ![t].pc = "save_app", ![t].set = "running"]
          ELSE /\ Goto(t, "sac_cleanup")
               /\ UNCHANGED <<running_apps, appdata>>
    /\ UNCHANGED <<apps, buckets, dbusers, container, tasks, worker, init, req, sweep, boots, rtvars, libvars>>

\* start_app_container, failure after the waits: stop_container,
\* remove_container, return None (process_task raises).
P_SacCleanup(t) ==
    /\ procs[t].pc = "sac_cleanup"
    /\ LET n == ContainerName(tasks[t].app)
       IN container' = EngineRemove(EngineStop(container, n), n)
    /\ Goto(t, "mark_failed")
    /\ UNCHANGED <<apps, buckets, dbusers, running_apps, tasks, worker, init, req, sweep, boots, appdata, rtvars, libvars>>

\* app.save(): the document is written with the status set locally (and is
\* inserted again when it was deleted meanwhile).  After the failure path's
\* save (ERROR) process_task returns.
P_SaveApp(t) ==
    /\ procs[t].pc = "save_app"
    /\ apps' = [apps EXCEPT ![tasks[t].app] = procs[t].set]
    /\ IF procs[t].set = "error" THEN End(t) ELSE Goto(t, "mark_success")
    /\ UNCHANGED <<buckets, dbusers, container, running_apps, tasks, worker, init, req, sweep, boots, appdata, rtvars, libvars>>

\* process_task: task.update(status = SUCCESS).
P_MarkSuccess(t) ==
    /\ procs[t].pc = "mark_success"
    /\ IF tasks[t].del THEN UNCHANGED tasks ELSE SetTaskStatus(t, "success")
    /\ End(t)
    /\ UNCHANGED <<apps, buckets, dbusers, container, running_apps, worker, init, req, sweep, boots, appdata, rtvars, libvars>>

\* process_task, except block: task.update(status = FAILED), then
\* app.status = ERROR when the action is START_APP and the app was found.
P_MarkFailed(t) ==
    /\ procs[t].pc = "mark_failed"
    /\ IF tasks[t].del
       THEN End(t) /\ UNCHANGED tasks
       ELSE /\ SetTaskStatus(t, "failed")
            /\ IF tasks[t].action = "start_app" /\ procs[t].app # "none"
               THEN procs' = [procs EXCEPT ![t].pc = "save_app", ![t].set = "error"]
               ELSE End(t)
    /\ UNCHANGED <<apps, buckets, dbusers, container, running_apps, worker, init, req, sweep, boots, appdata, rtvars, libvars>>

\* stop_app_container: stop_container and remove_container on
\* running_apps[app_id]["name"], the web config, del running_apps[app_id]
\* (KeyError when another coroutine dropped the record meanwhile);
\* process_task then sets app.status = STOPPED.
P_StopContainer(t) ==
    /\ procs[t].pc = "stop_container"
    /\ LET a == tasks[t].app
           n == ContainerName(a)
       IN /\ container' = EngineRemove(EngineStop(container, n), n)
          /\ IF running_apps[a] = 0
             THEN Goto(t, "mark_failed") /\ UNCHANGED running_apps
             ELSE /\ running_apps' = [running_apps EXCEPT ![a] = 0]
                  /\ procs' = [procs EXCEPT ![t].pc = "save_app", ![t].set = "stopped"]
    /\ UNCHANGED <<apps, buckets, dbusers, tasks, worker, init, req, sweep, boots, appdata, rtvars, libvars>>

\* delete_application_background step 1: every START_APP task of the app is
\* deleted; step 2 begins (stop_app_container's head).
P_DelTasks(t) ==
    /\ procs[t].pc = "del_tasks"
    /\ LET a == tasks[t].app
       IN /\ tasks' = [u \in DOMAIN tasks |->
                         IF tasks[u].app = a /\ tasks[u].action = "start_app"
                         THEN [tasks[u] EXCEPT !.del = TRUE] ELSE tasks[u]]
          /\ Goto(t, StopHead(a, "del_container", "del_data"))
    /\ UNCHANGED <<apps, buckets, dbusers, container, running_apps, worker, init, req, sweep, boots, appdata, rtvars, libvars>>

\* delete_application_background step 2: stop_app_container (its KeyError is
\* caught and logged).
P_DelContainer(t) ==
    /\ procs[t].pc = "del_container"
    /\ LET a == tasks[t].app
           n == ContainerName(a)
       IN /\ container' = EngineRemove(EngineStop(container, n), n)
          /\ running_apps' = [running_apps EXCEPT ![a] = 0]
    /\ Goto(t, "del_data")
    /\ UNCHANGED <<apps, buckets, dbusers, tasks, worker, init, req, sweep, boots, appdata, rtvars, libvars>>

\* delete_application_background deletes the Function documents (step 3),
\* the FunctionTemplate documents (step 4) and drops the database (step 6).
DeletedKinds == {"function", "template", "database"}

\* delete_application_background steps 3 to 6: functions, templates, the two
\* buckets, the database.
P_DelData(t) ==
    /\ procs[t].pc = "del_data"
    /\ buckets' = buckets \ {AppBucket(tasks[t].app), WebBucket(tasks[t].app)}
    /\ appdata' = [appdata EXCEPT ![tasks[t].app] = @ \ DeletedKinds]
    /\ Goto(t, "del_app")
    /\ UNCHANGED <<apps, dbusers, container, running_apps, tasks, worker, init, req, sweep, boots, rtvars, libvars>>

\* delete_application_background step 7: app.delete().
P_DelApp(t) ==
    /\ procs[t].pc = "del_app"
    /\ apps' = [apps EXCEPT ![tasks[t].app] = "none"]
    /\ Goto(t, "mark_success")
    /\ UNCHANGED <<buckets, dbusers, container, running_apps, tasks, worker, init, req, sweep, boots, appdata, rtvars, libvars>>

\* DockerManager.restart_container when the restarted container does not
\* stay up (its process exits; the container was created with no restart
\* policy): container.restart() returns, the status read is not "running"
\* and the coroutine enters "while restarted_container.status != 'running'".
P_RestartExits(t) ==
    /\ procs[t].pc = "find_app"
    /\ tasks[t].action = "restart_app"
    /\ apps[tasks[t].app] # "none"
    /\ LET n == ContainerName(tasks[t].app)
       IN /\ container[n].state # "absent"
          /\ container' = [container EXCEPT ![n] = [state |-> "exited", health |-> "none", id |-> container[n].id]]
    /\ procs' = [procs EXCEPT ![t].pc = "restart_wait", ![t].app = apps[tasks[t].app]]
    /\ UNCHANGED <<apps, buckets, dbusers, running_apps, tasks, worker, init, req, sweep, boots, appdata, rtvars, libvars>>

\* restart_container, the wait loop: sleep(0.5) and reload() until the
\* status is "running" (True is returned); reload() raises NotFound for a
\* container that is gone (False is returned and process_task raises).
\* The loop has no other exit: a round that reads another status changes
\* nothing and is not a step of the model.
P_RestartWait(t) ==
    /\ procs[t].pc = "restart_wait"
    /\ LET c == container[ContainerName(tasks[t].app)]
       IN CASE c.state = "absent" -> Goto(t, "mark_failed")
            [] c.state = "running" -> procs' = [procs EXCEPT ![t].pc = "save_app", ![t].set = "running"]
            [] OTHER -> FALSE
    /\ UNCHANGED ProcVarsOnly

ProcessTask(t, F) ==
    \/ P_MarkRunning(t)
    \/ P_FindApp(t)
    \/ \E flt \in F : P_SacReplace(t, flt)
    \/ \E flt \in F : P_SacHealth(t, flt)
    \/ \E flt \in F : P_SacDns(t, flt)
    \/ P_SacCleanup(t)
    \/ P_SaveApp(t)
    \/ P_MarkSuccess(t)
    \/ P_MarkFailed(t)
    \/ P_StopContainer(t)
    \/ P_DelTasks(t)
    \/ P_DelContainer(t)
    \/ P_DelData(t)
    \/ P_DelApp(t)

\* ------------------------------------------------- routers/applications
ApiOps == {"create", "start", "stop", "restart", "delete", "update_deps"}

\* The task each handler inserts.
\* restart_application inserting the task of start_application.
ActionOfCopied(op) ==
    CASE op = "create" -> "start_app"
      [] op = "start" -> "start_app"
      [] op = "stop" -> "stop_app"
      [] op = "restart" -> "start_app"
      [] op = "delete" -> "delete_app"
      [] op = "update_deps" -> "restart_app"

ActionOf(op) ==
    CASE op \in {"create", "start"} -> "start_app"
      [] op = "stop" -> "stop_app"
      [] op \in {"restart", "update_deps"} -> "restart_app"
      [] op = "delete" -> "delete_app"

\* An application id is generated once: create is for an id no document,
\* task or database user has carried.
FreshApp(a) ==
    /\ apps[a] = "none"
    /\ a \notin dbusers
    /\ \A t \in DOMAIN tasks : tasks[t].app # a

Respond(op, a, code) == req' = [IdleReq EXCEPT !.pc = "done", !.op = op, !.app = a, !.code = code]

Accept(op, a, pc, set) == req' = [IdleReq EXCEPT !.pc = pc, !.op = op, !.app = a, !.set = set]

\* A start_application without its "already running" check.
StartCheckNoGuard(a, st) ==
    CASE st = "none" -> Respond("start", a, 202)
      [] OTHER -> Accept("start", a, "save", "starting")

\* start_application: 202 for an unknown app, 400 for a running one,
\* otherwise app.status = STARTING and app.save() is issued.
StartCheck(a, st) ==
    CASE st = "none" -> Respond("start", a, 202)
      [] st = "running" -> Respond("start", a, 400)
      [] OTHER -> Accept("start", a, "save", "starting")

\* stop_application: HTTPException 404 / 400 unless the app is running.
StopCheck(a, st) ==
    CASE st = "none" -> Respond("stop", a, 404)
      [] st # "running" -> Respond("stop", a, 400)
      [] OTHER -> Accept("stop", a, "save", "stopping")

\* restart_application: as stop_application, but the task is inserted first
\* and the status (STARTING) saved after it.
RestartCheck(a, st) ==
    CASE st = "none" -> Respond("restart", a, 404)
      [] st # "running" -> Respond("restart", a, 400)
      [] OTHER -> Accept("restart", a, "insert", "starting")

\* delete_application: any status is accepted.
DeleteCheck(a, st) ==
    CASE st = "none" -> Respond("delete", a, 404)
      [] OTHER -> Accept("delete", a, "save", "deleting")

\* update_application_dependencies: no status check; app.save() writes the
\* document back with the status that was read.
UpdateDepsCheck(a, st) ==
    CASE st = "none" -> Respond("update_deps", a, 404)
      [] OTHER -> Accept("update_deps", a, "save", st)

\* create_application: 409 when the name is taken, otherwise
\* Application(status = STARTING).insert() is issued.
CreateCheck(a, st) ==
    CASE st # "none" -> Respond("create", a, 409)
      [] OTHER -> Accept("create", a, "save", "starting")

\* A request arrives (the handlers are served once start-up is over): the
\* handler's Application.find_one and its validation.
R_Find(op, a, cap) ==
    /\ Serving
    /\ req.pc = "idle"
    /\ Len(tasks) + Reserved < cap
    /\ op = "create" => FreshApp(a)
    /\ LET st == apps[a]
       IN CASE op = "start" -> StartCheck(a, st)
            [] op = "stop" -> StopCheck(a, st)
            [] op = "restart" -> RestartCheck(a, st)
            [] op = "delete" -> DeleteCheck(a, st)
            [] op = "update_deps" -> UpdateDepsCheck(a, st)
            [] op = "create" -> CreateCheck(a, st)
    /\ UNCHANGED <<apps, buckets, dbusers, container, running_apps, tasks, procs, worker, init, sweep, boots, appdata, rtvars, libvars>>

\* app.save() (new_app.insert() for create); restart_application returns
\* after it, the other handlers go on to insert their task.
R_Save ==
    /\ req.pc = "save"
    /\ apps' = [apps EXCEPT ![req.app] = req.set]
    /\ req' = IF req.op = "restart"
              THEN [req EXCEPT !.pc = "done", !.code = 0, !.wrote = req.set, !.set = "none"]
              ELSE [req EXCEPT !.pc = "insert", !.wrote = req.set, !.set = "none"]
    /\ UNCHANGED <<buckets, dbusers, container, running_apps, tasks, procs, worker, init, sweep, boots, appdata, rtvars, libvars>>

\* Task(action, payload = {app_id}).insert(); code 0 is returned, except by
\* restart_application, which saves the status first.
R_Insert ==
    /\ req.pc = "insert"
    /\ InsertTask(ActionOf(req.op), req.app)
    /\ req' = IF req.op = "restart"
              THEN [req EXCEPT !.pc = "save", !.ins = Append(@, Task(ActionOf(req.op), req.app))]
              ELSE [req EXCEPT !.pc = "done", !.code = 0, !.ins = Append(@, Task(ActionOf(req.op), req.app))]
    /\ UNCHANGED <<apps, buckets, dbusers, container, running_apps, worker, init, sweep, boots, appdata, rtvars, libvars>>

\* The response has been sent.
R_Release ==
    /\ req.pc = "done"
    /\ req' = IdleReq
    /\ UNCHANGED <<apps, buckets, dbusers, container, running_apps, tasks, procs, worker, init, sweep, boots, appdata, rtvars, libvars>>

\* ------------------------------------------------- sync_runtime_status
\* A sweep that takes a missing container for a failure.
NewStatusMissingIsError(c) ==
    CASE c.state = "absent" -> "error"
      [] c.state = "running" /\ c.health = "healthy" -> "running"
      [] c.state = "running" /\ c.health = "unhealthy" -> "error"
      [] c.state = "running" -> "starting"
      [] c.state \in {"created", "restarting"} -> "starting"
      [] OTHER -> "stopped"

\* The status the sweep derives from the container it has listed.
NewStatus(c) ==
    CASE c.state = "absent" -> "stopped"
      [] c.state = "running" /\ c.health = "healthy" -> "running"
      [] c.state = "running" /\ c.health = "unhealthy" -> "error"
      [] c.state = "running" -> "starting"
      [] c.state \in {"created", "restarting"} -> "starting"
      [] OTHER -> "stopped"

SweepSkips == {"stopping", "stopped", "deleting"}

\* A sweep that also writes a status equal to the one it read.
S_FindWritesAll ==
    /\ Serving
    /\ sweep.pc = "idle"
    /\ LET todo == {w \in {[app |-> a, seen |-> apps[a], cont |-> container[ContainerName(a)],
                            new |-> NewStatus(container[ContainerName(a)])] :
                              a \in {x \in AppIds : apps[x] # "none"}} :
                       w.seen \notin SweepSkips}
       IN /\ todo # {}
          /\ sweep' = [pc |-> "set", todo |-> todo]
    /\ UNCHANGED <<apps, buckets, dbusers, container, running_apps, tasks, procs, worker, init, req, boots, appdata, rtvars, libvars>>

\* docker_manager.list_containers(all=True), then Application.find_all():
\* the writes to make are those of the apps not in a skipped status whose
\* derived status differs from the one read.
S_Find ==
    /\ Serving
    /\ sweep.pc = "idle"
    /\ LET todo == {w \in {[app |-> a, seen |-> apps[a], cont |-> container[ContainerName(a)],
                            new |-> NewStatus(container[ContainerName(a)])] :
                              a \in {x \in AppIds : apps[x] # "none"}} :
                       w.seen \notin SweepSkips /\ w.seen # w.new}
       IN /\ todo # {}
          /\ sweep' = [pc |-> "set", todo |-> todo]
    /\ UNCHANGED <<apps, buckets, dbusers, container, running_apps, tasks, procs, worker, init, req, boots, appdata, rtvars, libvars>>

\* The app the sweep's loop is at.
SweepHead == CHOOSE x \in sweep.todo : TRUE

\* app.set({status: new_status}) for the next app; a document that is gone
\* raises and ends the sweep.
S_Set ==
    /\ sweep.pc = "set"
    /\ LET w == SweepHead
           rest == sweep.todo \ {w}
       IN IF apps[w.app] = "none"
          THEN sweep' = IdleSweep /\ UNCHANGED apps
          ELSE /\ apps' = [apps EXCEPT ![w.app] = w.new]
               /\ sweep' = IF rest = {} THEN IdleSweep ELSE [sweep EXCEPT !.todo = rest]
    /\ UNCHANGED <<buckets, dbusers, container, running_apps, tasks, procs, worker, init, req, boots, appdata, rtvars, libvars>>

\* ------------------------------------------------------ runtime actions
\* A request for func_id enters dynamic_handler (the Application document
\* was found by the get_application dependency); load_all_common_functions
\* sends its query.
D_Enter(r, func_id) ==
    /\ calls[r].pc = "idle"
    /\ \A q \in 1..(r - 1) : calls[q].pc # "idle"
    /\ calls' = [calls EXCEPT ![r] = [IdleCall EXCEPT !.pc = "common_find", !.func_id = func_id]]
    /\ UNCHANGED <<ctlvars, libvars, fndb, cache, feed, watcher, metrics, penv, osenv>>

\* load_all_common_functions: the query is served.
D_CommonFind(r) ==
    /\ calls[r].pc = "common_find"
    /\ calls' = [calls EXCEPT ![r].pc = "common_build", ![r].docs = CommonDocs(fndb)]
    /\ UNCHANGED <<ctlvars, libvars, fndb, cache, feed, watcher, metrics, penv, osenv>>

\* load_all_common_functions: the loop; then load_function_by_ids sends its
\* queries.
D_CommonBuild(r) ==
    /\ calls[r].pc = "common_build"
    /\ LET b == BuildCommon(DOMAIN calls[r].docs, calls[r].docs, cache, {})
       IN /\ cache' = b.cache
          /\ calls' = [calls EXCEPT ![r].pc = "lookup", ![r].common = b.ns, ![r].docs = NoDocs]
    /\ UNCHANGED <<ctlvars, libvars, fndb, feed, watcher, metrics, penv, osenv>>

\* dynamic_handler, "if not loaded_data": HTTPException 404, status ERROR.
NotFound(r) == calls' = [calls EXCEPT ![r].pc = "metric", ![r].status = "error", ![r].http = 404,
                                       ![r].doc = NoDoc]

\* dynamic_handler once the artifact is loaded.
Loaded(r, art, hit) ==
    LET o == AfterLoad(art.names)
    IN calls' = [calls EXCEPT ![r].pc = "metric", ![r].status = o.status, ![r].http = o.http,
                               ![r].ran = o.ran, ![r].raised = o.raised, ![r].hit = hit,
                               ![r].art = art.ver, ![r].doc = NoDoc]

\* A load_function_by_ids that goes to the cache without asking the database.
LookupUnchecked(db, f) == [present |-> TRUE, code |-> NoCode]

\* load_function_by_ids: the Application and then the Function with this
\* function_id, status published and type endpoint.
Lookup(db, f) == FindPublished(db, f, "endpoint")

\* load_function_by_ids: None when the function is not found; otherwise
\* load_function_by_name, whose cache.get either returns the cached
\* artifact or is a miss that sends the query for the document.
D_Lookup(r) ==
    /\ calls[r].pc = "lookup"
    /\ LET f == calls[r].func_id
           hit == CacheGet(cache, MakeKey(APP_ID, f, <<>>))
       IN IF ~Lookup(fndb, f).present
          THEN NotFound(r)
          ELSE IF hit # NoArtifact
          THEN Loaded(r, hit, TRUE)
          ELSE calls' = [calls EXCEPT ![r].pc = "fetch"]
    /\ UNCHANGED <<ctlvars, libvars, fndb, cache, feed, watcher, metrics, penv, osenv>>

\* load_function_by_name: the query is served.
L_Fetch(r) ==
    /\ calls[r].pc = "fetch"
    /\ calls' = [calls EXCEPT ![r].pc = "compile", ![r].doc = FindPublished(fndb, calls[r].func_id, "endpoint")]
    /\ UNCHANGED <<ctlvars, libvars, fndb, cache, feed, watcher, metrics, penv, osenv>>

\* load_function_by_name: None without a document; otherwise _compile_code
\* (RuntimeError when the source does not execute) and cache.set.
L_Compile(r) ==
    /\ calls[r].pc = "compile"
    /\ LET d == calls[r].doc
       IN CASE ~d.present -> NotFound(r) /\ UNCHANGED cache
            [] d.present /\ d.code.kind = "broken" ->
                 /\ calls' = [calls EXCEPT ![r].pc = "metric", ![r].status = "error", ![r].http = 200,
                                            ![r].raised = "RuntimeError", ![r].doc = NoDoc]
                 /\ UNCHANGED cache
            [] OTHER ->
                 /\ cache' = CacheSet(cache, MakeKey(APP_ID, calls[r].func_id, <<>>), CompileCode(d.code))
                 /\ Loaded(r, CompileCode(d.code), FALSE)
    /\ UNCHANGED <<ctlvars, libvars, fndb, feed, watcher, metrics, penv, osenv>>

\* A dynamic_handler whose except blocks leave the status as it was.
MetricStatusKept(r) == "success"

\* dynamic_handler, finally: the status the metric is built with.
MetricStatus(r) == calls[r].status

\* dynamic_handler, finally: metric.insert(), and the response goes out.
M_Insert(r) ==
    /\ calls[r].pc = "metric"
    /\ metrics' = metrics \cup {[call |-> r, function_id |-> calls[r].func_id, status |-> MetricStatus(r)]}
    /\ calls' = [calls EXCEPT ![r] = [IdleCall EXCEPT !.pc = "done", !.inserts = calls[r].inserts + 1,
                                                     !.status = calls[r].status, !.http = calls[r].http,
                                                     !.raised = calls[r].raised]]
    /\ UNCHANGED <<ctlvars, libvars, fndb, cache, feed, watcher, penv, osenv>>

\* An entry of the cache passes its expire_at.
T_Expire ==
    /\ \E i \in DOMAIN cache :
          /\ cache[i].fresh
          /\ cache' = [cache EXCEPT ![i].fresh = FALSE]
    /\ UNCHANGED <<ctlvars, libvars, fndb, feed, watcher, calls, metrics, penv, osenv>>

\* routers/functions.update_function_code: func.code = code; func.save().
\* The update is in the change feed with code among its updated fields.
U_UpdateCode(f, kind) ==
    /\ fndb[f].present
    /\ fndb[f].code.ver < MaxCode
    /\ fndb' = [fndb EXCEPT ![f].code = [ver |-> @.ver + 1, kind |-> kind]]
    /\ feed' = Append(feed, [operationType |-> "update", id |-> f, updatedFields |-> {"code", "updated_at"}])
    /\ UNCHANGED <<ctlvars, libvars, cache, watcher, calls, metrics, penv, osenv>>

\* routers/functions.delete_function: the document, its history and its
\* metrics are deleted (a delete is not an operation the watcher's stream
\* matches).
U_Delete(f) ==
    /\ fndb[f].present
    /\ fndb' = [fndb EXCEPT ![f] = NoDoc]
    /\ metrics' = {m \in metrics : m.function_id # f}
    /\ UNCHANGED <<ctlvars, libvars, cache, feed, watcher, calls, penv, osenv>>

\* watch_function_changes, one change: the full document is looked up (a
\* change whose document is gone does not match the pipeline); the
\* identifier is function_name for a common function and function_id
\* otherwise; the cache is invalidated when code was updated, and for a
\* common function load_all_common_functions sends its query.
W_Change ==
    /\ watcher.pc = "watch"
    /\ feed # <<>>
    /\ feed' = Tail(feed)
    /\ LET e == Head(feed)
           f == e.id
           identifier == IF FunctionType[f] = "common" THEN FunctionName[f] ELSE f
           should_invalidate == e.operationType = "replace"
                                   \/ (e.operationType = "update" /\ "code" \in e.updatedFields)
       IN IF fndb[f].present /\ should_invalidate
          THEN /\ cache' = Invalidate(cache, APP_ID, identifier)
               /\ watcher' = [watcher EXCEPT !.pc = IF FunctionType[f] = "common" THEN "find" ELSE "watch"]
          ELSE UNCHANGED <<cache, watcher>>
    /\ UNCHANGED <<ctlvars, libvars, fndb, calls, metrics, penv, osenv>>

\* watch_function_changes, reload: the query of load_all_common_functions
\* is served.
W_Find ==
    /\ watcher.pc = "find"
    /\ watcher' = [watcher EXCEPT !.pc = "build", !.docs = CommonDocs(fndb)]
    /\ UNCHANGED <<ctlvars, libvars, fndb, cache, feed, calls, metrics, penv, osenv>>

\* watch_function_changes, reload: the loop, and
\* app.state.common_modules = reloaded_modules.
W_Build ==
    /\ watcher.pc = "build"
    /\ LET b == BuildCommon(DOMAIN watcher.docs, watcher.docs, cache, {})
       IN /\ cache' = b.cache
          /\ watcher' = [watcher EXCEPT !.pc = "watch", !.docs = NoDocs, !.common_modules = b.ns]
    /\ UNCHANGED <<ctlvars, libvars, fndb, feed, calls, metrics, penv, osenv>>

\* routers/settings.env_add: the key is set or replaced in
\* Application.environment_variables; app.save().
E_Add(k, v) ==
    /\ penv[k] # v
    /\ penv' = [penv EXCEPT ![k] = v]
    /\ UNCHANGED <<ctlvars, libvars, fndb, cache, feed, watcher, calls, metrics, osenv>>

\* routers/settings.env_remove: the key is filtered out; app.save().
E_Remove(k) ==
    /\ penv[k] # NoValue
    /\ penv' = [penv EXCEPT ![k] = NoValue]
    /\ UNCHANGED <<ctlvars, libvars, fndb, cache, feed, watcher, calls, metrics, osenv>>

\* ------------------------------------------------ routers/proxy.py
\* Hosts of requests that reach the catch-all route: the sub-domain of an
\* application, and one no application has.
ProxyHosts == AppIds \cup {"zz9"}

\* The id of a container made for the proxy (those made for task t have id t).
ProxyCid == MaxTasks + 1

\* A reverse_proxy that goes on to forward whatever start_app_container returned.
AfterStartForwards(container_info) == [pc |-> "forward", http |-> 0]

\* reverse_proxy after "container_info = await start_app_container(app)":
\* 502 is returned for None, otherwise the request is forwarded.
AfterStart(container_info) ==
    IF container_info = 0 THEN [pc |-> "done", http |-> 502] ELSE [pc |-> "forward", http |-> 0]

Started(container_info) ==
    proxy' = [proxy EXCEPT !.pc = AfterStart(container_info).pc,
                           !.http = AfterStart(container_info).http,
                           !.info = container_info]

\* reverse_proxy: a request for a sub-domain arrives; Application.find_one,
\* 404 when there is none; start_app_container's head returns the
\* running_apps record of an app that has one.
X_Find(host) ==
    /\ Serving
    /\ proxy.pc \in {"idle", "done"}
    /\ IF host \notin AppIds \/ apps[host] = "none"
       THEN proxy' = [IdleProxy EXCEPT !.pc = "done", !.http = 404]
       ELSE IF AlreadyRunning(host)
       THEN proxy' = [IdleProxy EXCEPT !.app = host, !.pc = AfterStart(running_apps[host]).pc,
                                       !.http = AfterStart(running_apps[host]).http,
                                       !.info = running_apps[host]]
       ELSE proxy' = [IdleProxy EXCEPT !.app = host, !.pc = "sac_replace"]
    /\ UNCHANGED <<ctlvars, rtvars, cachevars, blobvars, fnvars, svcvars>>

\* start_app_container called by reverse_proxy: the stale container is
\* stopped and removed, the new one created and started (flt: the engine
\* fails to start it; None is returned).
X_SacReplace(flt) ==
    /\ proxy.pc = "sac_replace"
    /\ LET n == ContainerName(proxy.app)
           c1 == EngineRemove(EngineStop(container, n), n)
       IN IF ~EngineCanCreate(c1, n)
          THEN container' = c1 /\ Started(0)
          ELSE IF flt
          THEN container' = EngineCreate(c1, n, ProxyCid) /\ Started(0)
          ELSE /\ container' = EngineStart(EngineCreate(c1, n, ProxyCid), n)
               /\ proxy' = [proxy EXCEPT !.pc = "sac_health", !.cid = ProxyCid]
    /\ UNCHANGED <<apps, buckets, dbusers, running_apps, tasks, procs, worker, init, req, sweep,
                   boots, appdata, rtvars, cachevars, blobvars, fnvars, svcvars>>

\* start_app_container called by reverse_proxy: the round of the health
\* loop that decides (as P_SacHealth).
X_SacHealth(flt) ==
    /\ proxy.pc = "sac_health"
    /\ LET c == container[ContainerName(proxy.app)]
       IN CASE c.state = "absent" \/ c.id # proxy.cid -> ~flt /\ Started(0)
            [] OTHER ->
                 CASE c.health = "healthy" -> ~flt /\ proxy' = [proxy EXCEPT !.pc = "sac_dns"]
                   [] c.health = "unhealthy" -> ~flt /\ proxy' = [proxy EXCEPT !.pc = "sac_cleanup"]
                   [] OTHER -> (flt \/ c.state # "running") /\ proxy' = [proxy EXCEPT !.pc = "sac_cleanup"]
    /\ UNCHANGED <<ctlvars, rtvars, cachevars, blobvars, fnvars, svcvars>>

\* start_app_container called by reverse_proxy: the name resolves, the
\* templates and the web config are made, running_apps[app_id] is set and
\* the record returned (as P_SacDns).
X_SacDns(flt) ==
    /\ proxy.pc = "sac_dns"
    /\ LET a == proxy.app
       IN IF container[ContainerName(a)].state = "running" /\ ~flt
          THEN /\ running_apps' = [running_apps EXCEPT ![a] = proxy.cid]
               /\ appdata' = [appdata EXCEPT ![a] = @ \cup {"template"}]
               /\ Started(proxy.cid)
          ELSE /\ proxy' = [proxy EXCEPT !.pc = "sac_cleanup"]
               /\ UNCHANGED <<running_apps, appdata>>
    /\ UNCHANGED <<apps, buckets, dbusers, container, tasks, procs, worker, init, req, sweep,
                   boots, rtvars, cachevars, blobvars, fnvars, svcvars>>

\* start_app_container called by reverse_proxy, failure after the waits:
\* stop_container, remove_container, return None.
X_SacCleanup ==
    /\ proxy.pc = "sac_cleanup"
    /\ LET n == ContainerName(proxy.app)
       IN container' = EngineRemove(EngineStop(container, n), n)
    /\ Started(0)
    /\ UNCHANGED <<apps, buckets, dbusers, running_apps, tasks, procs, worker, init, req, sweep,
                   boots, appdata, rtvars, cachevars, blobvars, fnvars, svcvars>>

\* reverse_proxy: request.body(), then the request is sent to
\* http://<container_name>:8001/<path>; the runtime's response is passed on
\* (200 stands for whatever it answers), httpx.RequestError gives 502.
X_Forward ==
    /\ proxy.pc = "forward"
    /\ proxy' = [proxy EXCEPT !.pc = "done", !.sent = TRUE,
                              !.http = IF container[ContainerName(proxy.app)].state = "running"
                                       THEN 200 ELSE 502]
    /\ UNCHANGED <<ctlvars, rtvars, cachevars, blobvars, fnvars, svcvars>>

\* ------------------------------------------------- minio_open contexts
\* with minio_open(path, mode): the preparation phase, then the buffer is
\* yielded.  Mode "w" reads nothing; mode "x" asks stat_object.
B_Open(w, mode) ==
    /\ handles[w].pc = "closed"
    /\ LET raised == IF mode = "x" THEN ExclusiveRaises(blob) ELSE "none"
       IN handles' = [handles EXCEPT ![w] =
                         IF raised = "none"
                         THEN [pc |-> "open", mode |-> mode, buffer |-> "", raised |-> "none"]
                         ELSE [ClosedHandle EXCEPT !.mode = mode, !.raised = raised]]
    /\ UNCHANGED <<ctlvars, rtvars, cachevars, pxvars, fnvars, blob, svcvars>>

\* The body of the with statement writes to the buffer.
B_Write(w, data) ==
    /\ handles[w].pc = "open"
    /\ handles[w].buffer = ""
    /\ data # ""
    /\ handles' = [handles EXCEPT ![w].buffer = data]
    /\ UNCHANGED <<ctlvars, rtvars, cachevars, pxvars, fnvars, blob, svcvars>>

\* The with statement is left: put_object uploads the buffer under the
\* object name, whatever is there.
B_Close(w) ==
    /\ handles[w].pc = "open"
    /\ blob' = handles[w].buffer
    /\ handles' = [handles EXCEPT ![w].pc = "closed"]
    /\ UNCHANGED <<ctlvars, rtvars, cachevars, pxvars, fnvars, svcvars>>

\* MinioManager.upload_file_stream of the controller's storage API:
\* put_object.
B_Upload(data) ==
    /\ blob # data
    /\ blob' = data
    /\ UNCHANGED <<ctlvars, rtvars, cachevars, pxvars, fnvars, handles, svcvars>>

\* MinioManager.delete_object of the controller's storage API: remove_object.
B_Remove ==
    /\ blob # NoObject
    /\ blob' = NoObject
    /\ UNCHANGED <<ctlvars, rtvars, cachevars, pxvars, fnvars, handles, svcvars>>

\* -------------------------------------------------------- create_function
\* create_function: Application.find_one (404 when there is none), then
\* Function.find_one(function_name, app_id): 309 when a document has the name.
F_Check(r, a, name) ==
    /\ creates[r].pc = "idle"
    /\ creates' = [creates EXCEPT ![r] =
                      IF apps[a] = "none"
                      THEN [pc |-> "done", name |-> name, code |-> 404]
                      ELSE IF \E i \in DOMAIN functions : functions[i] = name
                      THEN [pc |-> "done", name |-> name, code |-> 309]
                      ELSE [pc |-> "template", name |-> name, code |-> -1]]
    /\ UNCHANGED <<ctlvars, rtvars, cachevars, pxvars, blobvars, functions, svcvars>>

\* create_function: FunctionTemplate.find_one gives the code.
F_Template(r) ==
    /\ creates[r].pc = "template"
    /\ creates' = [creates EXCEPT ![r].pc = "insert"]
    /\ UNCHANGED <<ctlvars, rtvars, cachevars, pxvars, blobvars, functions, svcvars>>

\* create_function: new_func.insert(); the collection has no unique index
\* (Settings.indexes = ["function_id", "app_id"]).
F_Insert(r) ==
    /\ creates[r].pc = "insert"
    /\ functions' = Append(functions, creates[r].name)
    /\ creates' = [creates EXCEPT ![r].pc = "done", ![r].code = 0]
    /\ UNCHANGED <<ctlvars, rtvars, cachevars, pxvars, blobvars, svcvars>>

\* ------------------------------------------------- CodeCache operations
\* CodeCache(max_size=..., ttl=...): an object of either module is
\* constructed in place of the untouched global one.
C_New(module, max_size, ttl) ==
    /\ codecache = code_cache
    /\ codecache' = CodeCache(module, max_size, ttl)
    /\ UNCHANGED <<ctlvars, rtvars, pxvars, blobvars, fnvars, clock, svcvars>>

\* set(key, data) at the current time; the dict is followed up to the
\* largest max_size constructed.
C_Set(k, data) ==
    /\ \/ \E m \in MaxSizes : Len(codecache._cache) < m
       \/ Len(codecache._cache) >= codecache.max_size
       \/ \E i \in DOMAIN codecache._cache : codecache._cache[i].key = KeyOf(k)
    /\ codecache' = CodeCache_set(codecache, KeyOf(k), data, clock)
    /\ UNCHANGED <<ctlvars, rtvars, pxvars, blobvars, fnvars, clock, svcvars>>

\* invalidate(app_name, function_id) of the object's module; suffixes is
\* the argument server/core/cache.py's invalidate takes.
C_Invalidate(app_name, function_id, suffixes) ==
    /\ codecache._cache # <<>>
    /\ codecache' = IF codecache.module = "app"
                    THEN CodeCache_invalidate(codecache, app_name, function_id)
                    ELSE CodeCache_invalidate_server(codecache, app_name, function_id, suffixes)
    /\ UNCHANGED <<ctlvars, rtvars, pxvars, blobvars, fnvars, clock, svcvars>>

\* time.time() advances.
C_Tick ==
    /\ clock < MaxTime
    /\ clock' = clock + 1
    /\ UNCHANGED <<ctlvars, rtvars, pxvars, blobvars, fnvars, codecache, svcvars>>

\* ----------------------------------------------------- LogWatcherManager
\* _stop_watching: the recorded task is popped and cancelled; a task that
\* has not run yet ends without entering _watch_logs, one that is in its
\* stream gets CancelledError when it next runs.
Lw_stop_watching(m) ==
    IF m.rec = 0
    THEN m
    ELSE [m EXCEPT !.rec = 0,
                   !.task[m.rec] = CASE m.task[m.rec] = "new" -> "done"
                                     [] m.task[m.rec] = "watching" -> "cancelling"
                                     [] OTHER -> m.task[m.rec]]

\* The asyncio tasks created so far.
Created(m) == {i \in 1..MaxWatch : m.task[i] # "none"}

\* _start_watching: asyncio.create_task(self._watch_logs(app_id)) is
\* recorded in _watch_tasks, unless a task is recorded already.
Lw_start_watching(m) ==
    IF m.rec # 0
    THEN m
    ELSE LET i == Cardinality(Created(m)) + 1
         IN [m EXCEPT !.rec = i, !.task[i] = "new"]

\* subscribe: the websocket is appended and the watching starts when
\* _watch_tasks has no task of the application.
Lw_subscribe(m, f, ws) ==
    Lw_start_watching([m EXCEPT !._subscribers = @ \cup {<<ws, f>>}])

\* unsubscribe: the websocket is removed and, when the application has no
\* subscriber left, the watching stops.
Lw_unsubscribe(m, f, ws) ==
    LET m1 == [m EXCEPT !._subscribers = @ \ {<<ws, f>>}]
    IN IF m1._subscribers = {} THEN Lw_stop_watching(m1) ELSE m1

\* websocket_logs, a subscribe message for function f: unsubscribe from the
\* current function when it is another one, then subscribe; nothing
\* suspends between the two calls.
K_Subscribe(ws, f) ==
    /\ logw.cur[ws] \notin {"closed", f}
    /\ Cardinality(Created(logw)) < MaxWatch
    /\ LET m1 == IF logw.cur[ws] # "none" THEN Lw_unsubscribe(logw, logw.cur[ws], ws) ELSE logw
       IN logw' = [Lw_subscribe(m1, f, ws) EXCEPT !.cur[ws] = f]
    /\ UNCHANGED <<ctlvars, rtvars, cachevars, pxvars, blobvars, fnvars, savers, sched>>

\* websocket_logs, an unsubscribe message.
K_Unsubscribe(ws) ==
    /\ logw.cur[ws] \notin {"closed", "none"}
    /\ logw' = [Lw_unsubscribe(logw, logw.cur[ws], ws) EXCEPT !.cur[ws] = "none"]
    /\ UNCHANGED <<ctlvars, rtvars, cachevars, pxvars, blobvars, fnvars, savers, sched>>

\* websocket_logs, WebSocketDisconnect: the finally clause unsubscribes
\* from the current function and the handler is over.
K_Disconnect(ws) ==
    /\ logw.cur[ws] # "closed"
    /\ logw' = [(IF logw.cur[ws] # "none" THEN Lw_unsubscribe(logw, logw.cur[ws], ws) ELSE logw)
                   EXCEPT !.cur[ws] = "closed"]
    /\ UNCHANGED <<ctlvars, rtvars, cachevars, pxvars, blobvars, fnvars, savers, sched>>

\* _watch_logs of task i runs for the first time: collection.watch is
\* opened and the task waits for changes.
L_Watch(i) ==
    /\ logw.task[i] = "new"
    /\ logw' = [logw EXCEPT !.task[i] = "watching"]
    /\ UNCHANGED <<ctlvars, rtvars, cachevars, pxvars, blobvars, fnvars, savers, sched>>

\* _watch_logs of the cancelled task i runs again: CancelledError, and the
\* finally clause deletes _watch_tasks[app_id] when the application has an
\* entry there.
L_Cancelled(i) ==
    /\ logw.task[i] = "cancelling"
    /\ logw' = [logw EXCEPT !.task[i] = "done", !.rec = 0]
    /\ UNCHANGED <<ctlvars, rtvars, cachevars, pxvars, blobvars, fnvars, savers, sched>>

\* ------------------------------------------------------ SchedulerManager
\* _get_trigger: CronTrigger(**trigger_config) or
\* IntervalTrigger(**trigger_config) is built, or raises.
TriggerBuilt(cfg) == cfg # "bad"

\* add_job: a disabled task has its job removed; otherwise the trigger is
\* built and the job is added under the task_id with replace_existing=True;
\* when _get_trigger raises, the error is logged and the jobs stay as they
\* are.
Sm_add_job(jobs, task) ==
    IF ~task.enabled
    THEN [jobs EXCEPT ![task.task_id] = NoJob]
    ELSE IF ~TriggerBuilt(task.trigger_config)
         THEN jobs
         ELSE [jobs EXCEPT ![task.task_id] = [exists |-> TRUE,
                                              trigger |-> task.trigger_config,
                                              args |-> task.args]]

\* remove_job: the job with this task_id is removed if there is one.
Sm_remove_job(jobs, task_id) == [jobs EXCEPT ![task_id] = NoJob]

\* POST /scheduler/upsert: code 302 without the function, code 311 for a
\* common function; otherwise the function's ScheduledTask is updated with
\* the request's fields, or inserted with a new task_id, and given to
\* add_job.
upsert_task_for_function(f, cfg, a, en) ==
    /\ FunctionTypeOf(f) = "endpoint"
    /\ sched.docs[f].exists \/ sched.ids < MaxInserts
    /\ LET old == sched.docs[f]
           task == [exists |-> TRUE,
                    task_id |-> IF old.exists THEN old.task_id ELSE sched.ids + 1,
                    trigger_config |-> cfg, args |-> a, enabled |-> en]
       IN sched' = [docs |-> [sched.docs EXCEPT ![f] = task],
                    jobs |-> Sm_add_job(sched.jobs, task),
                    ids |-> IF old.exists THEN sched.ids ELSE sched.ids + 1]
    /\ UNCHANGED <<ctlvars, rtvars, cachevars, pxvars, blobvars, fnvars, savers, logw>>

\* POST /scheduler/delete: the job of the function's task is removed and
\* the document deleted.
delete_task_for_function(f) ==
    /\ sched.docs[f].exists
    /\ sched' = [sched EXCEPT !.docs[f] = NoTask,
                              !.jobs = Sm_remove_job(sched.jobs, sched.docs[f].task_id)]
    /\ UNCHANGED <<ctlvars, rtvars, cachevars, pxvars, blobvars, fnvars, savers, logw>>

\* ------------------------------------ writers of the Application document
\* Application.find_one / Application.find(...).to_list(): the writer holds
\* the document as it is now, environment_variables included.
V_Read(w) ==
    /\ savers[w].pc \in {"idle", "done"}
    /\ savers' = [savers EXCEPT ![w] = [pc |-> "read", env |-> penv]]
    /\ UNCHANGED <<ctlvars, rtvars, cachevars, pxvars, blobvars, fnvars, logw, sched>>

\* app.save() / application.save(): every field of the copy is written
\* ($set of the whole document); process_task and initialize_existing_apps
\* have changed status only, set_dynamic_env has set key k to v in its
\* copy; the coroutine is done.
V_Save(w, k, v) ==
    /\ savers[w].pc = "read"
    /\ penv' = IF w = "set_dynamic_env" THEN [savers[w].env EXCEPT ![k] = v] ELSE savers[w].env
    /\ savers' = [savers EXCEPT ![w] = [IdleSaver EXCEPT !.pc = "done"]]
    /\ UNCHANGED <<ctlvars, cachevars, pxvars, blobvars, fnvars, logw, sched, fndb, cache, feed, watcher, calls, metrics, osenv>>

\* ------------------------------------------------------------------ Next
\* The coroutines of the controller process and the engine's health check;
\* F: the engine's fault modes.
Background(F) ==
    \/ Boot
    \/ \E flt \in F : EngineHealth(flt)
    \/ W_RecFind
    \/ W_RecInsert
    \/ W_Drain
    \/ W_Open
    \/ W_Deliver
    \/ I_Find
    \/ I_Save
    \/ I_Insert
    \/ \E t \in DOMAIN tasks : ProcessTask(t, F)
    \/ S_Find
    \/ S_Set

\* A client sends a request; Ops: the operations requested, cap: the number
\* of task documents.
Requests(Ops, cap) == \E op \in Ops, a \in AppIds : R_Find(op, a, cap)

\* The API handlers go on.
Handlers ==
    \/ R_Save
    \/ R_Insert
    \/ R_Release

\* The engine may fail (a container does not start, turns unhealthy, is
\* slow to become healthy, or its name does not resolve); requests arrive
\* and the process ends at any time.
Next ==
    \/ Background(BOOLEAN)
    \/ Requests(ApiOps, MaxTasks)
    \/ Handlers
    \/ Kill(MaxTasks, MaxBoots)
    \/ Shutdown(MaxTasks, MaxBoots)

Spec == Init /\ [][Next]_vars

\* The worker has caught up: every inserted task has been handed to
\* process_task and no process_task is in progress.
Settled ==
    /\ \A t \in DOMAIN tasks : procs[t].pc = "idle"
    /\ worker.pc = "watching"
    /\ worker.next > Len(tasks)

\* The engine works (a started container becomes healthy and resolvable);
\* a client sends its next request, and the process ends, once the worker
\* has caught up.
NextSettled ==
    \/ Background({FALSE})
    \/ Settled /\ Requests(ApiOps, MaxTasks)
    \/ Handlers
    \/ Settled /\ Kill(MaxTasks, MaxBoots)
    \/ Settled /\ Shutdown(MaxTasks, MaxBoots)

SpecSettled == Init /\ [][NextSettled]_vars

\* The engine may fail, the controller process stays up and a client sends
\* its next request once the worker has caught up.
NextFaults ==
    \/ Background(BOOLEAN)
    \/ Settled /\ Requests(ApiOps, MaxTasks)
    \/ Handlers

SpecFaults == Init /\ [][NextFaults]_vars

\* A kill can fall anywhere, the engine works, the only requests are
\* restarts, sent to the first controller process.
CrashTasks == 3

NextCrash ==
    \/ Background({FALSE})
    \/ boots = 0 /\ Requests({"restart"}, CrashTasks)
    \/ Handlers
    \/ Kill(CrashTasks, MaxBoots)

SpecCrash == Init /\ [][NextCrash]_vars

\* The engine works and the controller process stays up; the only requests
\* are deletes, sent at any time.
NextDelete ==
    \/ Background({FALSE})
    \/ Requests({"delete"}, MaxTasks)
    \/ Handlers

SpecDelete == Init /\ [][NextDelete]_vars

\* The runtime of an application whose container is live: requests arrive,
\* functions are updated and deleted, the watcher follows the changes.
RuntimeUp == Init /\ \A a \in AppIds : apps[a] = "running" /\ LiveNames(container) = {ContainerName(a)}

NextRuntime ==
    \/ \E r \in 1..MaxCalls, f \in FunctionIds : D_Enter(r, f)
    \/ \E r \in 1..MaxCalls : D_CommonFind(r)
    \/ \E r \in 1..MaxCalls : D_CommonBuild(r)
    \/ \E r \in 1..MaxCalls : D_Lookup(r)
    \/ \E r \in 1..MaxCalls : L_Fetch(r)
    \/ \E r \in 1..MaxCalls : L_Compile(r)
    \/ \E r \in 1..MaxCalls : M_Insert(r)
    \/ \E f \in FunctionIds, kind \in CodeKinds : U_UpdateCode(f, kind)
    \/ \E f \in FunctionIds : U_Delete(f)
    \/ W_Change
    \/ W_Find
    \/ W_Build

SpecRuntime == RuntimeUp /\ [][NextRuntime]_vars

\* The runtime serves requests while the endpoint function is updated and
\* deleted and cache entries expire (the watcher has not come to the changes).
NextDispatch ==
    \/ \E r \in 1..MaxCalls, f \in FunctionIds : D_Enter(r, f)
    \/ \E r \in 1..MaxCalls : D_CommonFind(r)
    \/ \E r \in 1..MaxCalls : D_CommonBuild(r)
    \/ \E r \in 1..MaxCalls : D_Lookup(r)
    \/ \E r \in 1..MaxCalls : L_Fetch(r)
    \/ \E r \in 1..MaxCalls : L_Compile(r)
    \/ \E r \in 1..MaxCalls : M_Insert(r)
    \/ T_Expire
    \/ \E kind \in CodeKinds : U_UpdateCode(EndpointId, kind)
    \/ U_Delete(EndpointId)

SpecDispatch == RuntimeUp /\ [][NextDispatch]_vars

\* The runtime serves requests while environment variables are added and
\* removed.
NextEnv ==
    \/ \E r \in 1..MaxCalls, f \in FunctionIds : D_Enter(r, f)
    \/ \E r \in 1..MaxCalls : D_CommonFind(r)
    \/ \E r \in 1..MaxCalls : D_CommonBuild(r)
    \/ \E r \in 1..MaxCalls : D_Lookup(r)
    \/ \E r \in 1..MaxCalls : L_Fetch(r)
    \/ \E r \in 1..MaxCalls : L_Compile(r)
    \/ \E r \in 1..MaxCalls : M_Insert(r)
    \/ \E k \in EnvKeys, v \in EnvValues : E_Add(k, v)
    \/ \E k \in EnvKeys : E_Remove(k)

SpecEnv == RuntimeUp /\ [][NextEnv]_vars

\* The runtime is up; env_add and env_remove requests arrive while the
\* other writers of the Application document read and save it.
NextSave ==
    \/ \E k \in EnvKeys, v \in EnvValues : E_Add(k, v)
    \/ \E k \in EnvKeys : E_Remove(k)
    \/ \E w \in Savers : V_Read(w)
    \/ \E w \in Savers, k \in EnvKeys, v \in EnvValues : V_Save(w, k, v)

SpecSave == RuntimeUp /\ [][NextSave]_vars

\* Websockets of one application subscribe, switch, unsubscribe and
\* disconnect while the watch tasks run.
NextLogs ==
    \/ \E ws \in Sockets, f \in LogFunctions : K_Subscribe(ws, f)
    \/ \E ws \in Sockets : K_Unsubscribe(ws)
    \/ \E ws \in Sockets : K_Disconnect(ws)
    \/ \E i \in 1..MaxWatch : L_Watch(i)
    \/ \E i \in 1..MaxWatch : L_Cancelled(i)

SpecLogs == RuntimeUp /\ [][NextLogs]_vars

\* /scheduler/upsert and /scheduler/delete requests, one at a time.
NextSched ==
    \/ \E f \in SchedFunctions, cfg \in TriggerConfigs, a \in TaskArgs, en \in BOOLEAN :
           upsert_task_for_function(f, cfg, a, en)
    \/ \E f \in SchedFunctions : delete_task_for_function(f)

SpecSched == RuntimeUp /\ [][NextSched]_vars

\* The engine works, except that a restarted container may not stay up;
\* the controller process stays up and the requests are restarts and stops.
\* Every coroutine that can go on does go on, and so does the engine's
\* health check.
NextRestart ==
    \/ Background({FALSE})
    \/ Requests({"restart", "stop"}, MaxTasks)
    \/ Handlers
    \/ \E t \in DOMAIN tasks : P_RestartExits(t)
    \/ \E t \in DOMAIN tasks : P_RestartWait(t)

SpecRestart ==
    /\ Init
    /\ [][NextRestart]_vars
    /\ \A t \in 1..MaxTasks :
          WF_vars(t \in DOMAIN tasks /\ (ProcessTask(t, {FALSE}) \/ P_RestartWait(t)))
    /\ WF_vars(EngineHealth(FALSE))
    /\ WF_vars(Boot \/ W_RecFind \/ W_RecInsert \/ W_Drain \/ W_Open \/ W_Deliver)
    /\ WF_vars(I_Find \/ I_Save \/ I_Insert)

\* The engine works and the controller process stays up; the task change
\* stream can fail, and start and stop requests arrive at any time.  Every
\* coroutine that can go on does go on.
NextWatch ==
    \/ Background({FALSE})
    \/ Requests({"start", "stop"}, MaxTasks)
    \/ Handlers
    \/ W_StreamFails

SpecWatch ==
    /\ Init
    /\ [][NextWatch]_vars
    /\ \A t \in 1..MaxTasks : WF_vars(t \in DOMAIN tasks /\ ProcessTask(t, {FALSE}))
    /\ WF_vars(EngineHealth(FALSE))
    /\ WF_vars(Boot \/ W_RecFind \/ W_RecInsert \/ W_Drain \/ W_Open \/ W_Deliver)
    /\ WF_vars(I_Find \/ I_Save \/ I_Insert)
    /\ WF_vars(R_Save \/ R_Insert \/ R_Release)

\* The engine may fail and the controller process stays up; requests
\* arrive at the proxy at any time from the end of the start-up, while the
\* tasks of the boot are processed (the reconciler, which writes only the
\* status of an Application, is left out).
NextProxy ==
    \/ Boot
    \/ \E flt \in BOOLEAN : EngineHealth(flt)
    \/ W_RecFind
    \/ W_RecInsert
    \/ W_Drain
    \/ W_Open
    \/ W_Deliver
    \/ I_Find
    \/ I_Save
    \/ I_Insert
    \/ \E t \in DOMAIN tasks : ProcessTask(t, BOOLEAN)
    \/ \E host \in ProxyHosts : X_Find(host)
    \/ \E flt \in BOOLEAN : X_SacReplace(flt)
    \/ \E flt \in BOOLEAN : X_SacHealth(flt)
    \/ \E flt \in BOOLEAN : X_SacDns(flt)
    \/ X_SacCleanup
    \/ X_Forward

SpecProxy == Init /\ [][NextProxy]_vars

\* Functions of the runtime and the storage API use one object of the
\* application's bucket.
NextBlob ==
    \/ \E w \in Writers, mode \in OpenModes : B_Open(w, mode)
    \/ \E w \in Writers, data \in BlobData : B_Write(w, data)
    \/ \E w \in Writers : B_Close(w)
    \/ \E data \in BlobData : B_Upload(data)
    \/ B_Remove

SpecBlob == RuntimeUp /\ [][NextBlob]_vars

\* Clients create functions in the application.
NextCreate ==
    \/ \E r \in 1..MaxCreates, a \in AppIds, name \in FunctionNames : F_Check(r, a, name)
    \/ \E r \in 1..MaxCreates : F_Template(r)
    \/ \E r \in 1..MaxCreates : F_Insert(r)

SpecCreate == RuntimeUp /\ [][NextCreate]_vars

\* A CodeCache object in use: entries are set and invalidated while time
\* passes.
NextCache ==
    \/ \E module \in {"app", "server"}, max_size \in MaxSizes, ttl \in Ttls :
          C_New(module, max_size, ttl)
    \/ \E k \in CacheKeys, data \in CacheData : C_Set(k, data)
    \/ \E k \in CacheKeys, suffixes \in SUBSET {<<"c">>} : C_Invalidate(k[1], k[2], suffixes)
    \/ C_Tick

SpecCache == RuntimeUp /\ [][NextCache]_vars

\* The controller process boots and stays up; the containers change state
\* at the engine at any time and the reconciler sweeps (the tasks of the
\* boot are handed to process_task and not processed yet).
NextSweep ==
    \/ Boot
    \/ W_RecFind
    \/ W_RecInsert
    \/ W_Drain
    \/ W_Open
    \/ I_Find
    \/ I_Save
    \/ I_Insert
    \/ S_Find
    \/ S_Set
    \/ \E n \in DOMAIN container, st \in EngineStatuses, h \in HealthStatuses : EngineReports(n, st, h)

SpecSweep == Init /\ [][NextSweep]_vars

\* ---------------------------------------------------------------- claims
\* Task t is being executed by a process_task coroutine.
Executing(t) == procs[t].pc # "idle"

\* C1: while the worker is watching, every pending task is either being
\* executed or still to come out of the change stream, so that it is picked
\* up whenever it was inserted.
C1_PendingPickedUp ==
    worker.pc = "watching" =>
        \A t \in DOMAIN tasks :
            tasks[t].status = "pending" /\ ~tasks[t].del => Executing(t) \/ t >= worker.next

\* The status changes of the tasks in a step are among the pairs in Allowed(t).
StatusMoves(Allowed(_)) ==
    \A t \in DOMAIN tasks :
        tasks'[t].status # tasks[t].status => <<tasks[t].status, tasks'[t].status>> \in Allowed(t)

Forward == {<<"pending", "running">>, <<"running", "success">>, <<"running", "failed">>}

OnlyForward(t) == Forward

ForwardOrRetry(t) ==
    IF tasks[t].action = "start_app" THEN Forward \cup {<<"failed", "running">>} ELSE Forward

\* C2 as stated: a task's status only moves pending -> running -> success
\* or failed, and success and failed are never left.
C2_OnlyForward == [][StatusMoves(OnlyForward)]_vars

\* C2 amended: a task's status only moves pending -> running -> success or
\* failed, except that a failed start_app task is set to running again by
\* the drain of the next boot; success is never left and no task reaches
\* success or failed without being marked running first.
C2_ForwardOrRetry == [][StatusMoves(ForwardOrRetry)]_vars

\* The drain has picked a failed start_app task for another run.
C2_Witness ==
    \E t \in DOMAIN tasks :
        tasks[t].action = "start_app" /\ tasks[t].status = "failed" /\ procs[t].pc = "mark_running"

\* C3: for every application at most one process_task is in progress.
C3_OneExecutionPerApp ==
    \A a \in AppIds : Cardinality({t \in DOMAIN tasks : Executing(t) /\ tasks[t].app = a}) <= 1

\* A request arrives for operation op on application a.
Arrives(op, a) == req.pc = "idle" /\ req'.pc # "idle" /\ req'.op = op /\ req'.app = a

Rejected == req'.pc = "done" /\ req'.code # 0 /\ tasks' = tasks /\ apps' = apps

\* C4: a start request for an application whose recorded status is running
\* is answered with a non-zero code, inserts no task and leaves the
\* application's status as it is.
C4_StartOnRunningRejected ==
    [][\A a \in AppIds : Arrives("start", a) /\ apps[a] = "running" => Rejected]_vars

\* A start request on a running application has been answered.
C4_Witness == req.pc = "done" /\ req.op = "start" /\ req.code = 400 /\ apps[req.app] = "running"

\* The action a transitional status stands for.
InProgress(st) ==
    CASE st = "starting" -> {"start"}
      [] st = "stopping" -> {"stop"}
      [] OTHER -> {}

\* C5: a start, stop or restart request for an application in starting,
\* stopping or deleting is rejected unless it asks again for the action in
\* progress, and a stop or restart request is rejected unless the status is
\* running; a rejected request inserts no task and writes no status.
C5_TransitionalRejects ==
    [][\A a \in AppIds, op \in {"start", "stop", "restart"} :
          /\ Arrives(op, a)
          /\ \/ apps[a] \in {"starting", "stopping", "deleting"} /\ op \notin InProgress(apps[a])
             \/ op \in {"stop", "restart"} /\ apps[a] # "running"
          => Rejected]_vars

C6Ops == {"create", "start", "stop", "restart", "delete"}

Transitional(op) ==
    CASE op \in {"create", "start", "restart"} -> "starting"
      [] op = "stop" -> "stopping"
      [] op = "delete" -> "deleting"

\* The task action that matches a request.
Matching(op) ==
    CASE op \in {"create", "start"} -> "start_app"
      [] op = "stop" -> "stop_app"
      [] op = "restart" -> "restart_app"
      [] op = "delete" -> "delete_app"

LiveHealthy(c, a) == c[ContainerName(a)].state = "running" /\ c[ContainerName(a)].health = "healthy"

\* The process_task of task t ends in this step.
Finishes(t) == Executing(t) /\ procs'[t].pc = "idle" /\ worker'.pc # "down"

\* C7: when a start_app task finishes as failed the application's status
\* is error; when it finishes as success the status is running and the
\* application's container is live and healthy.
C7_StartOutcome ==
    [][\A t \in DOMAIN tasks :
          (tasks[t].action = "start_app" /\ ~tasks'[t].del /\ Finishes(t)
              /\ apps'[tasks[t].app] # "none") =>
             /\ tasks'[t].status = "failed" => apps'[tasks[t].app] = "error"
             /\ tasks'[t].status = "success" =>
                   apps'[tasks[t].app] = "running" /\ LiveHealthy(container', tasks[t].app)]_vars

\* The reconciler's pass writes the status of an application it read as
\* running and whose container it listed as not running.
SweepWritesDead ==
    /\ sweep.pc = "set" /\ sweep' # sweep /\ worker'.pc # "down"
    /\ SweepHead.seen = "running" /\ SweepHead.cont.state # "running"
    /\ apps[SweepHead.app] # "none"

\* C8 as stated: when the reconciler's pass comes to an application it
\* read as running and whose container is not live, a start_app task for
\* that application is enqueued.
C8_RunningHasContainerOrTask ==
    [][SweepWritesDead =>
          \E t \in DOMAIN tasks' :
              /\ tasks'[t].action = "start_app"
              /\ tasks'[t].app = SweepHead.app
              /\ tasks'[t].status \in {"pending", "running"}
              /\ t \notin DOMAIN tasks \/ tasks[t].status = "pending"]_vars

\* C8 amended: for an application it read as running and whose container
\* is not live, the reconciler's pass enqueues nothing and rewrites the
\* status instead: stopped when the container is absent, and otherwise
\* stopped or starting, never running.
C8_RunningRewritten ==
    [][SweepWritesDead =>
          /\ tasks' = tasks
          /\ apps'[SweepHead.app] \in {"stopped", "starting"}
          /\ SweepHead.cont.state = "absent" => apps'[SweepHead.app] = "stopped"]_vars

\* The pass is at a running application whose container is absent.
C8_Witness ==
    /\ sweep.pc = "set" /\ sweep.todo # {}
    /\ SweepHead.seen = "running" /\ SweepHead.cont.state = "absent"
    /\ apps[SweepHead.app] # "none"

Interrupted(a) ==
    \E t \in DOMAIN tasks :
        /\ tasks[t].action = "restart_app" /\ tasks[t].app = a
        /\ tasks[t].status = "running" /\ ~Executing(t)

\* Nothing is left for the controller to do without a request.
AtRest == ~ENABLED Background({FALSE})

\* C10: once the controller that restarted after the kill has nothing left
\* to do, the application whose restart was interrupted is running.
C10_RestartRecovered == \A a \in AppIds : Interrupted(a) /\ AtRest => apps[a] = "running"

\* The process_task of task t ends in this step having set the task to success.
FinishesAs(t, action) ==
    /\ tasks[t].action = action /\ ~tasks[t].del
    /\ Finishes(t)
    /\ tasks[t].status # "success" /\ tasks'[t].status = "success"

\* C11: when a stop_app task finishes as success, the application's status
\* is stopped, its container is not live in the engine and running_apps
\* holds no record for it, whether or not running_apps held a record when
\* the task began.
C11_StopOutcome ==
    [][\A t \in DOMAIN tasks :
          FinishesAs(t, "stop_app") =>
             /\ apps'[tasks[t].app] = "stopped"
             /\ ContainerName(tasks[t].app) \notin LiveNames(container')
             /\ running_apps'[tasks[t].app] = 0]_vars

\* start_app_container is entered for task t in this step, after an earlier
\* call stored the application's record and returned, with no stop since and
\* no other call in progress.
SecondStart(t) ==
    /\ tasks[t].action = "start_app"
    /\ procs[t].pc = "find_app" /\ procs'[t].pc \notin {"find_app", "idle"}
    /\ apps[tasks[t].app] # "none"
    /\ running_apps[tasks[t].app] # 0
    /\ \A u \in DOMAIN tasks \ {t} : ~Executing(u)

\* C12: a second start_app_container in sequence returns the running_apps
\* record the first one stored, creates no container, and leaves the
\* application with exactly one live container.
C12_SecondStartReuses ==
    [][\A t \in DOMAIN tasks :
          SecondStart(t) =>
             /\ running_apps' = running_apps
             /\ container' = container
             /\ procs'[t].pc = "save_app" /\ procs'[t].set = "running" /\ procs'[t].cid = 0
             /\ LiveNames(container') = {ContainerName(tasks[t].app)}]_vars

\* A start_app task got the record of an earlier call back.
C12_Witness ==
    \E t \in DOMAIN tasks :
        /\ tasks[t].action = "start_app" /\ procs[t].pc = "save_app"
        /\ procs[t].set = "running" /\ procs[t].cid = 0
        /\ running_apps[tasks[t].app] # 0
        /\ \E u \in DOMAIN tasks \ {t} :
              tasks[u].action = "start_app" /\ tasks[u].status = "success" /\ ~Executing(u)

\* C13: when a delete_app task finishes as success, the Application
\* document is gone, no Function, FunctionTemplate, FunctionMetric or
\* FunctionsHistory document of the application remains, its database is
\* dropped, its two buckets are gone and no container carries its name.
C13_DeleteOutcome ==
    [][\A t \in DOMAIN tasks :
          FinishesAs(t, "delete_app") =>
             /\ apps'[tasks[t].app] = "none"
             /\ appdata'[tasks[t].app] = {}
             /\ buckets' \cap {AppBucket(tasks[t].app), WebBucket(tasks[t].app)} = {}
             /\ container'[ContainerName(tasks[t].app)].state = "absent"]_vars

\* The coroutine of task t takes a step.
StepOf(t) == procs'[t] # procs[t] /\ worker'.pc # "down"

\* Nothing but the status of task t and the position of its coroutine changes.
OnlyTaskStatus(t) ==
    /\ UNCHANGED <<apps, buckets, dbusers, container, running_apps, appdata,
                   worker, init, req, sweep, boots>>
    /\ DOMAIN tasks' = DOMAIN tasks
    /\ \A u \in DOMAIN tasks : u # t => tasks'[u] = tasks[u] /\ procs'[u] = procs[u]
    /\ tasks'[t] = [tasks[t] EXCEPT !.status = tasks'[t].status]

\* C14: a delete_app task that finds no Application document goes on to
\* success and changes nothing but its own status, so that a second delete
\* of the same application leaves what the first one left.
C14_DeleteMissingApp ==
    [][\A t \in DOMAIN tasks :
          (tasks[t].action = "delete_app" /\ ~tasks[t].del /\ StepOf(t)) =>
             /\ (procs[t].pc = "find_app" /\ apps[tasks[t].app] = "none") =>
                   procs'[t].pc = "mark_success" /\ OnlyTaskStatus(t) /\ tasks'[t] = tasks[t]
             /\ (procs[t].pc = "mark_success" /\ procs[t].app = "none") =>
                   tasks'[t].status = "success" /\ procs'[t].pc = "idle" /\ OnlyTaskStatus(t)]_vars

\* A second delete_app task of an application finished as success after
\* finding the document gone.
C14_Witness ==
    \E t, u \in DOMAIN tasks :
        /\ t # u
        /\ tasks[t].action = "delete_app" /\ tasks[u].action = "delete_app"
        /\ tasks[t].app = tasks[u].app /\ apps[tasks[t].app] = "none"
        /\ tasks[u].status = "success" /\ tasks[t].status = "running"
        /\ procs[t].pc = "mark_success" /\ procs[t].app = "none"

\* Call r has missed the cache for its function and has not stored its
\* artifact yet.
Compiling(r) == calls[r].pc \in {"fetch", "compile"}

\* C15: concurrent cache misses for the same key coalesce: while one
\* request is between its miss and its cache.set for a key, no second
\* request is compiling for that key.
C15_OneCompilePerKey ==
    \A r1, r2 \in 1..MaxCalls :
        r1 # r2 /\ Compiling(r1) /\ Compiling(r2) => calls[r1].func_id # calls[r2].func_id

\* The watcher has processed every change of function f.
Processed(f) == watcher.pc = "watch" /\ \A i \in DOMAIN feed : feed[i].id # f

\* C16: once the watcher has processed the code changes of the endpoint
\* function, the cache holds no artifact compiled from its old code,
\* whatever requests were in flight.
C16_NoStaleEndpoint ==
    (Processed(EndpointId) /\ fndb[EndpointId].present) =>
        LET a == CacheGet(cache, MakeKey(APP_ID, EndpointId, <<>>))
        IN a = NoArtifact \/ a.ver = fndb[EndpointId].code.ver

\* C17: once the watcher has processed the update of the common function,
\* the common namespace built for a request that reads the updated document
\* comes from the new code.
C17_CommonRebuilt ==
    [][\A r \in 1..MaxCalls :
          (/\ calls[r].pc = "common_build" /\ calls'[r].pc = "lookup"
           /\ Processed(CommonId)
           /\ CommonId \in DOMAIN calls[r].docs
           /\ fndb[CommonId].present
           /\ calls[r].docs[CommonId].code = fndb[CommonId].code) =>
             \A e \in calls'[r].common :
                 e.id = CommonId => e.ver = fndb[CommonId].code.ver]_vars

\* The runtime has nothing in progress: no request, no change to process.
RuntimeAtRest ==
    /\ \A r \in 1..MaxCalls : calls[r].pc \in {"idle", "done"}
    /\ watcher.pc = "watch" /\ feed = <<>>

\* C18: once the changes of Application.environment_variables have been
\* delivered and nothing is in progress, the process environment agrees
\* with the persisted variables: every persisted key has its persisted
\* value and a removed key is not set.
C18_EnvConverges == RuntimeAtRest => \A k \in EnvKeys : osenv[k] = penv[k]

C20_OnlyPublishedEndpoint ==
    [][\A r \in 1..MaxCalls :
          (calls[r].pc = "lookup" /\ calls'[r] # calls[r]) =>
             IF fndb[calls[r].func_id].present /\ FunctionType[calls[r].func_id] = "endpoint"
             THEN calls'[r].http # 404
             ELSE /\ calls'[r].pc = "metric" /\ calls'[r].http = 404
                  /\ calls'[r].status = "error" /\ ~calls'[r].ran]_vars

\* A request got 404 for a deleted function whose artifact is still cached.
C20_Witness ==
    \E r \in 1..MaxCalls :
        /\ calls[r].pc = "metric" /\ calls[r].http = 404
        /\ calls[r].func_id = EndpointId /\ ~fndb[EndpointId].present
        /\ CacheGet(cache, MakeKey(APP_ID, EndpointId, <<>>)) # NoArtifact

\* The latest time an entry of the objects constructed expires at.
Horizon == MaxTime + CHOOSE m \in Ttls : \A x \in Ttls : x <= m

\* C21: after set(k, v), get(k) returns v at every time before the entry's
\* expire_at (the time of the set plus ttl) and no value from then on, and
\* it goes on doing so after a set of another key that evicts nothing and an
\* invalidate of another application's identifier.
C21_SetThenGet ==
    \A k \in CacheKeys, v \in CacheData :
        LET c1 == CodeCache_set(codecache, KeyOf(k), v, clock)
            expected(t) == IF t < clock + codecache.ttl THEN v ELSE None
        IN \A t \in clock..Horizon :
              /\ CodeCache_get(c1, KeyOf(k), t) = expected(t)
              /\ \A k2 \in CacheKeys \ {k}, v2 \in CacheData :
                    Len(c1._cache) < c1.max_size =>
                        CodeCache_get(CodeCache_set(c1, KeyOf(k2), v2, t), KeyOf(k), t) = expected(t)
              /\ \A k2 \in CacheKeys :
                    k2[1] # k[1] =>
                        /\ CodeCache_get(CodeCache_invalidate(c1, k2[1], k2[2]), KeyOf(k), t) = expected(t)
                        /\ CodeCache_get(CodeCache_invalidate_server(c1, k2[1], k2[2], {k2[3]}),
                                         KeyOf(k), t) = expected(t)

\* An object holds an entry that has expired and one that has not: get
\* returns nothing for the first and the data for the second.
C21_Witness ==
    \E i, j \in DOMAIN codecache._cache :
        /\ codecache._cache[i].expire_at <= clock
        /\ CodeCache_get(codecache, codecache._cache[i].key, clock) = None
        /\ codecache._cache[j].expire_at > clock
        /\ CodeCache_get(codecache, codecache._cache[j].key, clock) = codecache._cache[j].data

\* The keys of (app_name, function_id): the base key and its suffix variants.
OwnKeys(app_name, function_id) ==
    {KeyOf(k) : k \in {x \in CacheKeys : x[1] = app_name /\ x[2] = function_id}}

\* C22: invalidate(app, id) removes the base key of (app, id) and each of
\* its suffix variants, and leaves every other entry (of an identifier that
\* id is a prefix of, of another application) as it was.
C22_InvalidateExact ==
    \A k \in CacheKeys :
        LET after == IF codecache.module = "app"
                     THEN CodeCache_invalidate(codecache, k[1], k[2])
                     ELSE CodeCache_invalidate_server(codecache, k[1], k[2], {})
            others(e) == e.key \notin OwnKeys(k[1], k[2])
        IN after._cache = SelectSeq(codecache._cache, others)

C24_ExclusiveCreate ==
    [][\A w \in Writers :
          /\ (handles[w].pc = "closed" /\ handles'[w] # handles[w] /\ handles'[w].mode = "x") =>
                 IF blob = NoObject
                 THEN handles'[w].pc = "open"
                 ELSE handles'[w].pc = "closed" /\ handles'[w].raised = "FileExistsError"
          /\ (handles[w].pc = "open" /\ handles[w].mode = "x" /\ handles'[w].pc = "closed") =>
                 blob = NoObject]_vars

\* No two Function documents of the application have the same
\* function_name.
UniqueNames == \A i, j \in DOMAIN functions : functions[i] = functions[j] => i = j

\* C25: function_name is unique within an application whatever the
\* interleaving of the create requests, and a request for a name that a
\* document has is rejected and inserts nothing.
C25_UniqueFunctionName ==
    /\ UniqueNames
    /\ \A r \in 1..MaxCreates : creates[r].code = 309 => creates[r].pc = "done"

\* start_app_container, called for task t, returns None in this step after
\* it has created its container.
FailsAfterCreate(t) ==
    LET n == ContainerName(tasks[t].app)
    IN /\ procs'[t].pc = "mark_failed"
       /\ \/ procs[t].pc \in {"sac_health", "sac_dns", "sac_cleanup"}
          \/ /\ procs[t].pc = "sac_replace"
             /\ EngineCanCreate(EngineRemove(EngineStop(container, n), n), n)

\* C26: when start_app_container returns failure after creating the
\* container, no container of the application's name is left in the engine
\* and running_apps has no record of the application.
C26_FailedStartRollsBack ==
    [][\A t \in DOMAIN tasks :
          FailsAfterCreate(t) =>
              /\ container'[ContainerName(tasks[t].app)].state = "absent"
              /\ running_apps'[tasks[t].app] = 0]_vars

OwnContainer(t) == container[ContainerName(tasks[t].app)]

\* What holds of every step of start_app_container for task t: the wait
\* for the name is entered only on reading healthy from the invocation's
\* own container, an unhealthy reading and the end of the 30 rounds lead to
\* the failure path, and running_apps is set only by an invocation that is
\* past the health wait, when the name of a running container resolves.
ReadinessSteps(t) ==
    /\ (procs'[t].pc = "sac_dns" /\ procs[t].pc # "sac_dns") =>
           /\ procs[t].pc = "sac_health"
           /\ OwnContainer(t).state # "absent"
           /\ OwnContainer(t).id = procs[t].cid
           /\ OwnContainer(t).health = "healthy"
    /\ (procs[t].pc = "sac_health" /\ procs'[t] # procs[t] /\ OwnContainer(t).health # "healthy") =>
           procs'[t].pc \in {"sac_cleanup", "mark_failed"}
    /\ (running_apps'[tasks[t].app] \notin {0, running_apps[tasks[t].app]}
          /\ running_apps'[tasks[t].app] = procs[t].cid) =>
           /\ procs[t].pc = "sac_dns"
           /\ OwnContainer(t).state = "running"

\* start_app_container returns a record to process_task in this step.
ReturnsRecord(t) ==
    /\ tasks[t].action = "start_app"
    /\ procs[t].pc \in {"find_app", "sac_dns"}
    /\ procs'[t].pc = "save_app"
    /\ procs'[t].set = "running"

\* C28 as stated: a record is recorded and returned only by an invocation
\* that itself read healthy and then resolved the name; unhealthy and 30
\* rounds without healthy give failure.
C28_RecordOnlyAfterReadiness ==
    [][\A t \in DOMAIN tasks :
          /\ ReadinessSteps(t)
          /\ ReturnsRecord(t) => procs[t].pc = "sac_dns"]_vars

\* C28 amended: a record is returned either by an invocation that itself
\* read healthy and then resolved the name, which is also the only way
\* running_apps is set, or from running_apps as it was found at the call,
\* without looking at the container.
C28_RecordAfterReadinessOrKept ==
    [][\A t \in DOMAIN tasks :
          /\ ReadinessSteps(t)
          /\ ReturnsRecord(t) =>
                 \/ procs[t].pc = "sac_dns" /\ running_apps'[tasks[t].app] = procs[t].cid
                 \/ /\ procs[t].pc = "find_app"
                    /\ running_apps[tasks[t].app] # 0
                    /\ UNCHANGED <<running_apps, container>>]_vars

\* An invocation has recorded and returned the container it started, and
\* another has been given the record without starting anything.
C28_Witness ==
    \E t, u \in DOMAIN tasks :
        /\ procs[t].pc = "save_app" /\ procs[t].set = "running"
        /\ procs[t].cid = 0
        /\ tasks[t].action = "start_app"
        /\ tasks[u].action = "start_app"
        /\ running_apps[tasks[t].app] = u

\* The status of spec section 4.4's table for a listed container state
\* and health; "removing" is in no row.
TableRows == {"absent", "created", "running", "paused", "restarting", "exited", "dead"}

TableStatus(c) ==
    CASE c.state = "absent" -> "stopped"
      [] c.state = "running" /\ c.health = "healthy" -> "running"
      [] c.state = "running" /\ c.health = "unhealthy" -> "error"
      [] c.state = "running" /\ c.health \in {"starting", "none"} -> "starting"
      [] c.state \in {"created", "restarting"} -> "starting"
      [] c.state \in {"exited", "dead", "paused"} -> "stopped"

\* The sweep takes its snapshot of the containers and the applications.
SweepReads == sweep.pc = "idle" /\ sweep'.pc = "set"

\* The sweep applies the write for the application its loop is at.
SweepWrites == sweep.pc = "set" /\ sweep' # sweep /\ worker'.pc # "down" /\ apps[SweepHead.app] # "none"

\* C29: for every application whose status is not stopping, stopped or
\* deleting, a sweep derives the new status from the container it listed
\* by the table (absent: stopped; running and healthy: running; running
\* and unhealthy: error; running with health starting or unknown:
\* starting; created or restarting: starting; exited, dead or paused:
\* stopped), and it writes that status, and only when it differs from the
\* status it read.
C29_SweepTable ==
    [][/\ SweepReads =>
            /\ \A w \in sweep'.todo :
                  /\ w.seen = apps[w.app] /\ w.cont = container[ContainerName(w.app)]
                  /\ w.seen \notin {"none", "stopping", "stopped", "deleting"}
                  /\ w.cont.state \in TableRows => w.new = TableStatus(w.cont)
                  /\ w.new # w.seen
            /\ \A a \in AppIds :
                  (/\ apps[a] \notin {"none", "stopping", "stopped", "deleting"}
                   /\ container[ContainerName(a)].state \in TableRows
                   /\ TableStatus(container[ContainerName(a)]) # apps[a])
                      => \E w \in sweep'.todo : w.app = a
       /\ SweepWrites =>
            /\ apps' = [apps EXCEPT ![SweepHead.app] = SweepHead.new]
            /\ SweepHead.new # SweepHead.seen]_vars

\* The sweep is about to write stopped for an application it read as
\* running and whose container it listed as paused.
C29_Witness ==
    /\ sweep.pc = "set" /\ sweep.todo # {}
    /\ SweepHead.seen = "running" /\ SweepHead.cont.state = "paused" /\ SweepHead.new = "stopped"
    /\ apps[SweepHead.app] = "running"

\* C30: a sweep's write never changes the status of an application whose
\* recorded status is stopping, stopped or deleting when the write is
\* applied, also when the status became so after the sweep took its
\* snapshot.
C30_SweepLeavesTransitional ==
    [][(sweep.pc = "set" /\ sweep' # sweep /\ worker'.pc # "down") =>
          \A a \in AppIds :
              apps[a] \in {"stopping", "stopped", "deleting"} => apps'[a] = apps[a]]_vars

\* C31: a delete_app task removes the Application document only when the
\* container, the two buckets, the Function and FunctionTemplate documents
\* and the database of the application are gone.
C31_DocumentRemovedLast ==
    [][\A t \in DOMAIN tasks :
          (/\ tasks[t].action = "delete_app" /\ StepOf(t)
           /\ apps[tasks[t].app] # "none" /\ apps'[tasks[t].app] = "none") =>
             /\ container[ContainerName(tasks[t].app)].state = "absent"
             /\ buckets \cap {AppBucket(tasks[t].app), WebBucket(tasks[t].app)} = {}
             /\ appdata[tasks[t].app] \cap DeletedKinds = {}]_vars

\* The keys of the entries a cache object holds.
KeysOf(self) == {self._cache[i].key : i \in DOMAIN self._cache}

\* C32: the cache holds at most max_size entries; a set removes an entry
\* only when the key is new and the cache already holds max_size entries
\* (inserting would exceed it), and the entry removed is the one inserted
\* earliest among those present.
C32_BoundedFifo ==
    /\ Len(codecache._cache) <= codecache.max_size
    /\ \A k \in CacheKeys, v \in CacheData :
          LET c1 == CodeCache_set(codecache, KeyOf(k), v, clock)
              gone == KeysOf(codecache) \ KeysOf(c1)
          IN /\ Len(c1._cache) <= c1.max_size
             /\ gone # {} =>
                   /\ KeyOf(k) \notin KeysOf(codecache)
                   /\ Len(codecache._cache) = codecache.max_size
                   /\ gone = {Head(codecache._cache).key}

\* C33: a watcher whose change stream failed subscribes again, so that a
\* change made after the failure is delivered to its handler; for the task
\* watcher: every task inserted once watch_for_tasks has opened its stream,
\* also after the stream has failed, is eventually handed to process_task
\* (it leaves pending) or deleted.
C33_WatcherResubscribes ==
    \A t \in 1..MaxTasks :
        (t \in DOMAIN tasks /\ worker.pc \in {"watching", "returned"} /\ t >= worker.next)
            ~> (t \in DOMAIN tasks /\ (tasks[t].status # "pending" \/ tasks[t].del))

\* C34: while an application's recorded status is stopped and no start
\* request is accepted, no step creates or starts a container for it and
\* none changes its status.
C34_StoppedStaysDown ==
    [][\A a \in AppIds :
          (apps[a] = "stopped" /\ req.pc = "idle" /\ req'.pc = "idle") =>
             /\ apps'[a] = "stopped"
             /\ container'[ContainerName(a)].state \in {"created", "running"} =>
                   container'[ContainerName(a)].id = container[ContainerName(a)].id
                   /\ container[ContainerName(a)].state = container'[ContainerName(a)].state]_vars

LiveAs(c, a, rec) == c[ContainerName(a)].state = "running" /\ c[ContainerName(a)].id = rec

\* C36: start_app_container returns a record only when the container the
\* record names is live at the return, and a running_apps record is never
\* left for a container that is gone.
C36_RecordHasLiveContainer ==
    [][\A t \in DOMAIN tasks :
          /\ (ReturnsRecord(t) /\ worker'.pc # "down") =>
                 LiveAs(container', tasks[t].app, running_apps'[tasks[t].app])
          /\ (running_apps'[tasks[t].app] # 0 /\ worker'.pc # "down") =>
                 LiveAs(container', tasks[t].app, running_apps'[tasks[t].app])]_vars

\* C37: once an application's status is deleting no step sets another
\* status (the delete task removes the document), and with no create
\* request sent no step brings back a document that is gone.
C37_DeletingIsFinal ==
    [][\A a \in AppIds :
          worker'.pc # "down" =>
             /\ apps[a] = "deleting" => apps'[a] \in {"deleting", "none"}
             /\ apps[a] = "none" => apps'[a] = "none"]_vars

\* C38: the value an env_add has stored for a key stays in the persisted
\* environment_variables until an env_remove or another env_add for the
\* key: a save by process_task or initialize_existing_apps changes no key,
\* and a save by set_dynamic_env changes no key but the one it sets.
C38_EnvAddKept ==
    [][\A w \in Savers :
          (savers[w].pc = "read" /\ savers'[w].pc = "done") =>
              \A k \in EnvKeys :
                  penv'[k] # penv[k] => w = "set_dynamic_env" /\ penv'[k] # savers[w].env[k]]_vars

\* The watch tasks that deliver log entries: created and neither cancelled
\* nor over.
LiveWatch == {i \in 1..MaxWatch : logw.task[i] \in {"new", "watching"}}

\* C39: there is at most one live watch task of the application, it is the
\* one recorded in _watch_tasks, and there is one exactly when the
\* application has a subscriber.
C39_OneWatchTask ==
    /\ Cardinality(LiveWatch) <= 1
    /\ LiveWatch = (IF logw.rec = 0 THEN {} ELSE {logw.rec})
    /\ LiveWatch # {} <=> logw._subscribers # {}

\* The persisted ScheduledTask documents.
TaskDocs == {sched.docs[f] : f \in {g \in SchedFunctions : sched.docs[g].exists}}

\* C40: the jobs of the scheduler are those of the persisted ScheduledTask
\* documents that are enabled, matched by task_id, each job with the
\* trigger and the arguments of its document, and no ScheduledTask exists
\* for a common function.
C40_JobsAreEnabledTasks ==
    /\ {i \in 1..MaxInserts : sched.jobs[i].exists}
           = {d.task_id : d \in {e \in TaskDocs : e.enabled}}
    /\ \A d \in TaskDocs :
           sched.jobs[d.task_id].exists =>
               /\ sched.jobs[d.task_id].trigger = d.trigger_config
               /\ sched.jobs[d.task_id].args = d.args
    /\ \A f \in SchedFunctions :
           FunctionTypeOf(f) = "common" => ~sched.docs[f].exists

====
